---- MODULE Spec2Model ----
(***************************************************************************)
(* SuperQuantLab backtest core: the ledger that BacktestEngine keeps       *)
(* (cash, positions, realized PnL, trade logs), _execute_signal and        *)
(* _update_portfolio on it, the two MA strategies, and BacktestEngine.run. *)
(*                                                                         *)
(* Number representation.  The ledger uses decimal.Decimal; the model uses *)
(* scaled integers, all exact unless stated:                               *)
(*   quantity      ticks, QtyScale ticks per unit (the code rounds every   *)
(*                 quantity to 8 decimals, i.e. 10^8 ticks per unit; the   *)
(*                 model keeps fewer decimals so that values fit)          *)
(*   rates,        numerators over RateDen (fee_rate, slippage_rate,       *)
(*   fractions     Signal.quantity)                                        *)
(*   close price   whole currency units                                    *)
(*   fill price    1/RateDen currency                                      *)
(*   cash, equity, 1/MoneyScale currency, MoneyScale = QtyScale*RateDen^2  *)
(*   trade value,  (every product of a quantity, a fill price and a rate   *)
(*   fee           is exact at this scale)                                 *)
(*   avg_price     1/(RateDen*PrecScale) currency; a Decimal quotient is   *)
(*                 rounded half-even to this scale as the Decimal context  *)
(*                 rounds it to its precision                              *)
(*   realized_pnl  1/(MoneyScale*PrecScale) currency                       *)
(***************************************************************************)
EXTENDS Integers, Sequences, FiniteSets, TLC

\* ---------------------------------------------------------------- scales
QtyScale == 10
RateDen == 10
PrecScale == 100
MoneyScale == QtyScale * RateDen * RateDen

\* ------------------------------------------------- engine configuration
\* BacktestEngine(initial_capital, fee_rate, slippage_rate): the capital in whole
\* currency units, the rates over RateDen
InitialCapital == 10
FeeRateNum == 1
SlippageRateNum == 1

\* ---------------------------------------------------------------- bounds
MaxOps == 3
MaxClose == 2

Symbols == {"BTCUSDT"}
Closes == 1..MaxClose
UUIDs == {"u1", "u2"}

\* Signal.quantity values offered to _execute_signal, over RateDen: a negative
\* fraction, zero, a small and a large fraction, and an absolute count above 1.
SignalQuantities == {-1, 0, 1, RateDen \div 2, 2 * RateDen}

\* Signal as _execute_signal reads it (timestamp, symbol, side, quantity?).
Signals ==
  [timestamp : {0}, symbol : Symbols, side : {"BUY", "SELL"},
   has_quantity : {TRUE}, quantity : SignalQuantities]
  \cup [timestamp : {0}, symbol : Symbols, side : {"BUY", "SELL"},
         has_quantity : {FALSE}, quantity : {0}]

VARIABLES
  cash,          \* portfolio.cash
  positions,     \* portfolio.positions: symbol -> Position, or NoPosition
  realized_pnl,  \* portfolio.realized_pnl
  equity,        \* portfolio.equity, as of the last update_equity
  trades,        \* self.trades
  ptrades,       \* portfolio.trades
  initial_capital, \* self.initial_capital, at the scale of cash
  ties,          \* how round() has resolved each halfway quantity so far
  last,          \* the last operation: its input and what it returned
  ops,           \* number of harness operations so far
  run_state,     \* where BacktestEngine.run is: idle, running, returned, raised
  configs,       \* run's strategy_configs (type and MA windows of each)
  candles,       \* run's candles
  bar_index,     \* number of candles the loop has processed
  strategy,      \* the strategy object of the run
  equity_curve,  \* self.equity_curve
  error,         \* the exception run raised, "" for none
  result,        \* the StrategyResult run returned
  runs,          \* number of calls of run so far
  prev,          \* what the previous call of run was given and what it left
  args,          \* the last analyzer call: the method and its arguments
  out,           \* what that call returned or raised
  microstructure_engine, \* MicrostructureEngine: self.trades
  behavior_engine,  \* BehaviorEngine: timestamps, trades, local extremes
  clock          \* datetime.now(), in minutes

ledger_vars == <<cash, positions, realized_pnl, equity, trades, ptrades>>

run_vars ==
  <<run_state, configs, candles, bar_index, strategy, equity_curve, error,
    result, runs, prev>>

backtest_vars == <<ledger_vars, initial_capital, ties, last, ops, run_vars>>

analytics_vars == <<args, out, microstructure_engine, behavior_engine, clock>>

vars == <<backtest_vars, analytics_vars>>

\* ------------------------------------------------- the analyzers, unused
\* no analyzer call yet
NoCall == [op |-> "none"]

\* MicrostructureEngine() and BehaviorEngine() as constructed
NewMicrostructureEngine == [trades |-> <<>>]

NewBehaviorEngine ==
  [operation_timestamps |-> <<>>, trades |-> <<>>, local_extremes |-> <<>>]

AnalyticsIdle ==
  /\ args = NoCall
  /\ out = NoCall
  /\ microstructure_engine = NewMicrostructureEngine
  /\ behavior_engine = NewBehaviorEngine
  /\ clock = 0

\* ---------------------------------------------------------------- numbers
Abs(x) == IF x < 0 THEN -x ELSE x

Min(a, b) == IF a <= b THEN a ELSE b

\* floor(n / d) for d > 0 and any n
FloorDiv(n, d) == IF n >= 0 THEN n \div d ELSE -((-n + d - 1) \div d)

\* Decimal division: the quotient n/d (d > 0) rounded half-even to an integer of
\* the result's scale.
DecimalDiv(n, d) ==
  LET f == FloorDiv(n, d)
      r == n - f * d
  IN  IF 2 * r < d THEN f
      ELSE IF 2 * r > d THEN f + 1
      ELSE IF f % 2 = 0 THEN f ELSE f + 1

\* Decimal(str(round(float(x), 8))) for x = n/d ticks (d > 0): the nearest tick.
\* For a quotient exactly halfway between two ticks round() decides by the binary
\* value float() produced, which lies on either side of the tie: the result is a
\* fixed but unknown function of the value.  memo holds the halfway values met
\* so far (by their floor) with the tick each went to; a new one goes to either.
RoundQuantity(n, d, memo) ==
  LET f == FloorDiv(n, d)
      r == n - f * d
      known == {m \in memo : m.floor = f}
  IN  IF 2 * r < d THEN {[quantity |-> f, ties |-> memo]}
      ELSE IF 2 * r > d THEN {[quantity |-> f + 1, ties |-> memo]}
      ELSE IF known # {}
      THEN {[quantity |-> m.quantity, ties |-> memo] : m \in known}
      ELSE {[quantity |-> q,
             ties |-> memo \cup {[floor |-> f, quantity |-> q]}] :
              q \in {f, f + 1}}

\* ------------------------------------------------------------- the ledger
NoPosition == [quantity |-> -1, avg_price |-> -1]

\* Position(symbol=...): quantity 0, avg_price 0
NewPosition == [quantity |-> 0, avg_price |-> 0]

\* portfolio.positions.get(symbol, Position(symbol=symbol))
GetPosition(pos, symbol) ==
  IF pos[symbol] = NoPosition THEN NewPosition ELSE pos[symbol]

PositionKeys(pos) == {s \in Symbols : pos[s] # NoPosition}

\* Portfolio.update_equity: cash plus every position at its mark price
MarkEquity(c, pos, prices) ==
  LET RECURSIVE Sum(_)
      Sum(S) == IF S = {} THEN 0
                ELSE LET s == CHOOSE x \in S : TRUE
                     IN  pos[s].quantity * prices[s] * RateDen * RateDen
                         + Sum(S \ {s})
  IN  c + Sum(PositionKeys(pos))

\* _apply_slippage: price * (1 + slippage_rate) for BUY, price * (1 - slippage_rate)
\* for SELL, over RateDen
ApplySlippage(price, side) ==
  IF side = "BUY" THEN price * (RateDen + SlippageRateNum)
  ELSE price * (RateDen - SlippageRateNum)

\* _calculate_fee: quantity * price * fee_rate, at the scale of cash
CalculateFee(quantity, price) == quantity * price * FeeRateNum

\* quantity * execution_price, at the scale of cash
TradeValue(quantity, price) == quantity * price * RateDen

\* ------------------------------------------------------- _execute_signal
DefaultPctNum == 1
DefaultPctDen == 100

\* `if signal.quantity:` is false for None and for a Decimal equal to zero
QuantityGiven(signal) == signal.has_quantity /\ signal.quantity # 0

\* The quantity of lines 106-118, in ticks, for the stored equity eq and the fill
\* price: the possible values of the rounding, each with the memo it leaves.
DetermineQuantity(signal, eq, execution_price, memo) ==
  IF QuantityGiven(signal)
  THEN IF signal.quantity <= RateDen
       THEN RoundQuantity(eq * signal.quantity,
                          RateDen * RateDen * execution_price, memo)
       ELSE RoundQuantity(signal.quantity * QtyScale, RateDen, memo)
  ELSE RoundQuantity(eq * DefaultPctNum,
                     DefaultPctDen * RateDen * execution_price, memo)

\* a cash check that forgets the fee
EnoughCashIgnoringFee(c, trade_value, fee) == ~(c < trade_value)

\* line 132 negated: the BUY goes ahead
EnoughCash(c, trade_value, fee) == ~(c < trade_value + fee)

\* line 152 negated: there is a position to sell
HasPositionToSell(position) == ~(position.quantity <= 0)

\* a close that takes the requested quantity whatever is held
CloseQuantityUnclamped(quantity, held) == quantity

\* line 157
CloseQuantity(quantity, held) == Min(quantity, held)

\* a BUY that puts the fee (fee_rate of the trade value) into the cost basis
BuyPositionWithFee(position, quantity, execution_price) ==
  LET paid == execution_price * PrecScale * (RateDen + FeeRateNum)
  IN  IF position.quantity = 0
      THEN [quantity |-> quantity, avg_price |-> DecimalDiv(paid, RateDen)]
      ELSE [quantity |-> position.quantity + quantity,
            avg_price |->
              DecimalDiv(position.quantity * position.avg_price * RateDen
                           + quantity * paid,
                         (position.quantity + quantity) * RateDen)]

\* lines 137-145: the position after a BUY of quantity at execution_price
BuyPosition(position, quantity, execution_price) ==
  IF position.quantity = 0
  THEN [quantity |-> quantity, avg_price |-> execution_price * PrecScale]
  ELSE [quantity |-> position.quantity + quantity,
        avg_price |->
          DecimalDiv(position.quantity * position.avg_price
                       + quantity * execution_price * PrecScale,
                     position.quantity + quantity)]

\* a close that leaves avg_price as it was
SellPositionKeepingBasis(position, close_quantity) ==
  [quantity |-> position.quantity - close_quantity,
   avg_price |-> position.avg_price]

\* lines 163-165: the position after closing close_quantity
SellPosition(position, close_quantity) ==
  LET q == position.quantity - close_quantity
  IN  [quantity |-> q,
       avg_price |-> IF q = 0 THEN 0 ELSE position.avg_price]

\* line 160
RealizedPnl(position, execution_price, close_quantity, fee) ==
  (execution_price * PrecScale - position.avg_price) * close_quantity * RateDen
    - fee * PrecScale

NoTrade ==
  [trade_id |-> "", timestamp |-> 0, symbol |-> "", side |-> "",
   quantity |-> 0, price |-> 0, fee |-> 0]

\* The Trade of lines 174-183
MakeTrade(id, signal, quantity, execution_price, fee) ==
  [trade_id |-> id, timestamp |-> signal.timestamp, symbol |-> signal.symbol,
   side |-> signal.side, quantity |-> quantity, price |-> execution_price,
   fee |-> fee]

\* The ledger as one value
Ledger(c, pos, rp, eq, tr, ptr) ==
  [cash |-> c, positions |-> pos, realized_pnl |-> rp, equity |-> eq,
   trades |-> tr, ptrades |-> ptr]

\* a rejection that has already stored the position it looked up
ReturnNoneStoringPosition(L, signal, quantity) ==
  [ledger |->
     [L EXCEPT !.positions =
        [L.positions EXCEPT ![signal.symbol] =
           GetPosition(L.positions, signal.symbol)]],
   trade |-> NoTrade, quantity |-> quantity]

\* `return None` (lines 121, 134, 154): nothing is stored
ReturnNone(L, signal, quantity) ==
  [ledger |-> L, trade |-> NoTrade, quantity |-> quantity]

\* _execute_signal for one value of the rounding and one uuid4: the ledger
\* afterwards and the Trade returned (NoTrade for None).
ExecuteWith(signal, current_price, L, quantity, id) ==
  LET execution_price == ApplySlippage(current_price, signal.side)
      position == GetPosition(L.positions, signal.symbol)
      trade_value == TradeValue(quantity, execution_price)
      fee == CalculateFee(quantity, execution_price)
      close_quantity == CloseQuantity(quantity, position.quantity)
      trade == MakeTrade(id, signal, quantity, execution_price, fee)
      none == ReturnNone(L, signal, quantity)
      done(c, p, rp) ==
        [ledger |->
           [L EXCEPT !.cash = c,
                     !.positions = [L.positions EXCEPT ![signal.symbol] = p],
                     !.realized_pnl = rp,
                     !.trades = Append(L.trades, trade),
                     !.ptrades = Append(L.ptrades, trade)],
         trade |-> trade, quantity |-> quantity]
  IN  IF quantity <= 0 THEN none
      ELSE IF signal.side = "BUY"
      THEN IF ~EnoughCash(L.cash, trade_value, fee) THEN none
           ELSE done(L.cash - (trade_value + fee),
                     BuyPosition(position, quantity, execution_price),
                     L.realized_pnl)
      ELSE IF ~HasPositionToSell(position) THEN none
           ELSE done(L.cash + (close_quantity * execution_price * RateDen - fee),
                     SellPosition(position, close_quantity),
                     L.realized_pnl
                       + RealizedPnl(position, execution_price,
                                     close_quantity, fee))

\* Every outcome of _execute_signal(signal, current_price, portfolio): the
\* ledger, the Trade returned, the quantity computed and the rounding memo
ExecuteSignalOutcomes(signal, current_price, L, memo) ==
  UNION {{LET o == ExecuteWith(signal, current_price, L, r.quantity, id)
          IN  [ledger |-> o.ledger, trade |-> o.trade,
               quantity |-> o.quantity, ties |-> r.ties] :
            id \in UUIDs} :
         r \in DetermineQuantity(signal, L.equity,
                                 ApplySlippage(current_price, signal.side),
                                 memo)}

CurrentLedger == Ledger(cash, positions, realized_pnl, equity, trades, ptrades)

SetLedger(L) ==
  /\ cash' = L.cash
  /\ positions' = L.positions
  /\ realized_pnl' = L.realized_pnl
  /\ equity' = L.equity
  /\ trades' = L.trades
  /\ ptrades' = L.ptrades

NoSignal ==
  [timestamp |-> 0, symbol |-> "", side |-> "", has_quantity |-> FALSE,
   quantity |-> 0]

\* ------------------------------------------------------------ strategies
\* A Signal a strategy builds from a bar; quantity is over RateDen.
MakeSignal(timestamp, side, has_quantity, quantity) ==
  [timestamp |-> timestamp, symbol |-> "BTCUSDT", side |-> side,
   has_quantity |-> has_quantity, quantity |-> quantity]

\* position_size_pct (both strategies), over RateDen
PositionSizePctNum == 1

RECURSIVE SumCloses(_, _, _)
SumCloses(bars, from, to) ==
  IF from > to THEN 0 ELSE bars[to] + SumCloses(bars, from, to - 1)

\* calculate_moving_average(bars, window)[k] for k in 1..Len(bars), times window:
\* all zeros for fewer bars than the window, 0 (the NaN of the rolling mean,
\* fillna(0)) before the window is full, the mean of the last window closes after.
\* The closes of the model are small integers, for which the float mean is the
\* correctly rounded true mean, so two means compare as the rationals do.
MovingAverage(bars, window, k) ==
  IF Len(bars) < window THEN 0
  ELSE IF k < window THEN 0
  ELSE SumCloses(bars, k - window + 1, k)

\* breakout_multiplier of the cluster-density parameters, over RateDen: the
\* value the runs are given unless they say otherwise, and the values a run
\* may be given
BreakoutMultiplierNum == 10
BreakoutMultipliers == {BreakoutMultiplierNum, 15}

\* A StrategyConfig: its type, the MA-crossover windows and the cluster-density
\* breakout_multiplier of its parameters
StrategyConfig(type, short_window, long_window) ==
  [strategy_type |-> type, short_window |-> short_window,
   long_window |-> long_window, breakout_multiplier |-> BreakoutMultiplierNum]

\* the config with another breakout_multiplier
WithBreakoutMultiplier(config, multiplier) ==
  [config EXCEPT !.breakout_multiplier = multiplier]

\* A strategy object as __init__ and reset leave it: the fields of both classes
NewStrategy(config) ==
  [kind |-> config.strategy_type, short_window |-> config.short_window,
   long_window |-> config.long_window,
   breakout_multiplier |-> config.breakout_multiplier, bars |-> <<>>,
   signals |-> <<>>, current_position |-> "None", cluster_formed |-> FALSE]

NoStrategy == NewStrategy(StrategyConfig("", 0, 0))

\* ---- MACrossoverStrategy
\* short_window and long_window of the configs the runs are given
ShortWindow == 1
LongWindow == 2
LongerWindow == 3

\* short MA crosses above long MA (line 74)
BullishCross(bars, short_window, long_window) ==
  LET n == Len(bars)
  IN  /\ MovingAverage(bars, short_window, n - 1) * long_window
           <= MovingAverage(bars, long_window, n - 1) * short_window
      /\ MovingAverage(bars, short_window, n) * long_window
           > MovingAverage(bars, long_window, n) * short_window

\* short MA crosses below long MA (line 100)
BearishCross(bars, short_window, long_window) ==
  LET n == Len(bars)
  IN  /\ MovingAverage(bars, short_window, n - 1) * long_window
           >= MovingAverage(bars, long_window, n - 1) * short_window
      /\ MovingAverage(bars, short_window, n) * long_window
           < MovingAverage(bars, long_window, n) * short_window

\* a cross that is acted upon whatever side the strategy is on
NeverOnSide(current_position, side) == FALSE

\* lines 76 and 102 negated: the strategy is already on the side of the cross
AlreadyOnSide(current_position, side) == current_position = side

\* MACrossoverStrategy.on_bar: the strategy afterwards and the Signal returned
\* (NoSignal for None)
MACrossoverOnBar(st, bar) ==
  LET bars == Append(st.bars, bar.close)
      st1 == [st EXCEPT !.bars = bars]
      cross(side) ==
        \* lines 75-97 and 101-123: `signal` is assigned the closing Signal and
        \* then the opening one; the closing one stays in self.signals
        IF AlreadyOnSide(st.current_position, side)
        THEN [strategy |-> st1, signal |-> NoSignal]
        ELSE LET closing == MakeSignal(bar.timestamp, side, FALSE, 0)
                 opening == MakeSignal(bar.timestamp, side, TRUE,
                                       PositionSizePctNum)
                 sigs == IF st.current_position = "None"
                         THEN <<opening>> ELSE <<closing, opening>>
             IN  [strategy |->
                    [st1 EXCEPT !.signals = st.signals \o sigs,
                                !.current_position = side],
                  signal |-> opening]
  IN  IF Len(bars) < st.long_window \/ Len(bars) < 2
      THEN [strategy |-> st1, signal |-> NoSignal]
      ELSE IF BullishCross(bars, st.short_window, st.long_window)
      THEN cross("BUY")
      ELSE IF BearishCross(bars, st.short_window, st.long_window)
      THEN cross("SELL")
      ELSE [strategy |-> st1, signal |-> NoSignal]

\* ---- MAClusterDensityStrategy
MaPeriods == <<2, 3>>
\* density_threshold, over RateDen
DensityThresholdNum == 2

\* max(...) and min(...) of a non-empty list
MaxOfSeq(q) ==
  CHOOSE m \in {q[i] : i \in 1..Len(q)} : \A i \in 1..Len(q) : q[i] <= m

MinOfSeq(q) ==
  CHOOSE m \in {q[i] : i \in 1..Len(q)} : \A i \in 1..Len(q) : q[i] >= m

RECURSIVE SumOfSeq(_)
SumOfSeq(q) == IF q = <<>> THEN 0 ELSE q[1] + SumOfSeq(Tail(q))

RECURSIVE ProductOfSeq(_)
ProductOfSeq(q) == IF q = <<>> THEN 1 ELSE q[1] * ProductOfSeq(Tail(q))

\* the common denominator of the MA values
PeriodProduct == ProductOfSeq(MaPeriods)

\* _calculate_ma_values: the current MA of every period, over PeriodProduct
CalculateMaValues(bars) ==
  [i \in 1..Len(MaPeriods) |->
     MovingAverage(bars, MaPeriods[i], Len(bars))
       * (PeriodProduct \div MaPeriods[i])]

\* [ma for ma in ma_values if ma > 0]
RECURSIVE ValidMas(_)
ValidMas(q) ==
  IF q = <<>> THEN <<>>
  ELSE IF q[1] > 0 THEN <<q[1]>> \o ValidMas(Tail(q)) ELSE ValidMas(Tail(q))

\* spread_pct <= density_threshold (lines 68-87), spread_pct being
\* (ma_max - ma_min) / (sum / len)
IsClustered(ma_values) ==
  LET valid == ValidMas(ma_values)
  IN  /\ Len(ma_values) >= 2
      /\ Len(valid) >= 2
      /\ (MaxOfSeq(valid) - MinOfSeq(valid)) * Len(valid) * RateDen
           <= DensityThresholdNum * SumOfSeq(valid)

\* lines 93-99: the side of a breakout from the cluster, "None" inside it
SuggestedSide(ma_values, current_price, breakout_multiplier) ==
  LET valid == ValidMas(ma_values)
      band == breakout_multiplier * DensityThresholdNum
  IN  IF current_price * PeriodProduct * RateDen * RateDen
           > MaxOfSeq(valid) * (RateDen * RateDen + band)
      THEN "BUY"
      ELSE IF current_price * PeriodProduct * RateDen * RateDen
                < MinOfSeq(valid) * (RateDen * RateDen - band)
      THEN "SELL"
      ELSE "None"

\* _check_divergence: spread_pct > density_threshold * breakout_multiplier
CheckDivergence(ma_values, breakout_multiplier) ==
  LET valid == ValidMas(ma_values)
  IN  /\ Len(valid) >= 2
      /\ (MaxOfSeq(valid) - MinOfSeq(valid)) * Len(valid) * RateDen * RateDen
           > DensityThresholdNum * breakout_multiplier * SumOfSeq(valid)

OppositeSide(side) == IF side = "BUY" THEN "SELL" ELSE "BUY"

\* a flag that outlives the cluster
ClusterFormedKept(is_clustered, cluster_formed) == cluster_formed

\* lines 193-194: cluster_formed at the end of on_bar
ClusterFormedAfter(is_clustered, cluster_formed) ==
  IF ~is_clustered THEN FALSE ELSE cluster_formed

\* MAClusterDensityStrategy.on_bar
MAClusterDensityOnBar(st, bar) ==
  LET bars == Append(st.bars, bar.close)
      st1 == [st EXCEPT !.bars = bars]
      ma_values == CalculateMaValues(bars)
      is_clustered == IsClustered(ma_values)
      suggested_side ==
        IF is_clustered
        THEN SuggestedSide(ma_values, bar.close, st.breakout_multiplier)
        ELSE "None"
      \* lines 150-176
      entry ==
        LET closes_opposite ==
              st.current_position # "None"
                /\ st.current_position # suggested_side
            closing == MakeSignal(bar.timestamp,
                                  OppositeSide(st.current_position), FALSE, 0)
            opening == MakeSignal(bar.timestamp, suggested_side, TRUE,
                                  PositionSizePctNum)
            opens == closes_opposite \/ st.current_position = "None"
        IN  [strategy |->
               [st1 EXCEPT
                  !.cluster_formed = TRUE,
                  !.signals =
                    st.signals
                      \o (IF closes_opposite THEN <<closing>> ELSE <<>>)
                      \o (IF opens THEN <<opening>> ELSE <<>>),
                  !.current_position =
                    IF opens THEN suggested_side ELSE st.current_position],
             signal |-> IF opens THEN opening ELSE NoSignal]
      \* lines 179-190
      exit ==
        IF st.current_position # "None"
        THEN LET closing == MakeSignal(bar.timestamp,
                                       OppositeSide(st.current_position),
                                       FALSE, 0)
             IN  [strategy |->
                    [st1 EXCEPT !.signals = Append(st.signals, closing),
                                !.current_position = "None",
                                !.cluster_formed = FALSE],
                  signal |-> closing]
        ELSE [strategy |-> st1, signal |-> NoSignal]
      branch ==
        IF is_clustered /\ suggested_side # "None" /\ ~st.cluster_formed
        THEN entry
        ELSE IF st.cluster_formed
                  /\ CheckDivergence(ma_values, st.breakout_multiplier)
        THEN exit
        ELSE [strategy |-> st1, signal |-> NoSignal]
  IN  IF Len(bars) < MaxOfSeq(MaPeriods)
      THEN [strategy |-> st1, signal |-> NoSignal]
      ELSE [branch EXCEPT
              !.strategy.cluster_formed = ClusterFormedAfter(is_clustered, @)]

\* strategy.on_bar(bar), by the class _create_strategy chose
OnBar(st, bar) ==
  IF st.kind = "ma_crossover" THEN MACrossoverOnBar(st, bar)
  ELSE MAClusterDensityOnBar(st, bar)


\* ------------------------------------------------------ BacktestEngine.run
MaxBars == 4
MaxRuns == 2
MaxBarClose == 3

\* the closes of the candles run is given
BarCloses == 1..MaxBarClose

StrategyTypes == {"ma_crossover", "ma_cluster_density", "custom"}

\* strategy_configs: no config, one config of each type, and a second config
\* behind the first (only the first is used)
Config(type) == StrategyConfig(type, ShortWindow, LongWindow)

ConfigLists ==
  {<<>>} \cup {<<Config(t)>> : t \in StrategyTypes}
    \cup {<<Config("ma_crossover"), Config("custom")>>}
    \cup {<<StrategyConfig("ma_crossover", ShortWindow, LongerWindow)>>}

\* The timestamps (in hours) of a list of n candles: strictly increasing hourly
\* bars, and three lists that are not strictly increasing.
TimeLines == {"hourly", "constant", "reversed", "repeated"}

Timestamp(line, i, n) ==
  CASE line = "hourly" -> i
    [] line = "constant" -> 1
    [] line = "reversed" -> n + 1 - i
    [] OTHER -> IF i = n /\ n > 1 THEN n - 1 ELSE i

CandleLists ==
  UNION {{[i \in 1..n |-> [timestamp |-> Timestamp(line, i, n),
                           close |-> closes[i]]] :
            closes \in [1..n -> BarCloses], line \in TimeLines} :
         n \in 0..MaxBars}

\* Portfolio(initial_capital=self.initial_capital, cash=self.initial_capital)
FreshPortfolio(capital) ==
  Ledger(capital, [s \in Symbols |-> NoPosition], 0, capital, <<>>, <<>>)

\* an EquityPoint built before the portfolio is marked: it carries the equity
\* of the previous mark
EquityPointBeforeMark(curve, timestamp, eq, capital) ==
  LET stale == IF curve = <<>> THEN capital ELSE curve[Len(curve)].equity
  IN  [timestamp |-> timestamp, equity |-> stale,
       drawdown |-> [num |-> 0, den |-> 1]]

\* lines 367-376: the EquityPoint of a bar; drawdown is the quotient
\* (peak_equity - equity) / peak_equity, kept as numerator and denominator
EquityPoint(curve, timestamp, eq, capital) ==
  LET peak_equity ==
        IF curve = <<>> THEN capital
        ELSE MaxOfSeq([i \in 1..Len(curve) |-> curve[i].equity])
  IN  [timestamp |-> timestamp, equity |-> eq,
       drawdown |-> IF peak_equity > 0
                    THEN [num |-> peak_equity - eq, den |-> peak_equity]
                    ELSE [num |-> 0, den |-> 1]]

\* lines 244-260: the running-peak scan, from point i on
RECURSIVE DrawdownScan(_, _, _)
DrawdownScan(curve, i, acc) ==
  IF i > Len(curve) THEN acc
  ELSE LET e == curve[i].equity
       IN  IF e > acc.peak
           THEN DrawdownScan(curve, i + 1,
                             [acc EXCEPT !.peak = e, !.current = 0])
           ELSE LET dd == [num |-> acc.peak - e, den |-> acc.peak]
                    deeper == dd.num * acc.max_dd.den > acc.max_dd.num * dd.den
                    cur == acc.current + 1
                IN  DrawdownScan(curve, i + 1,
                      [acc EXCEPT
                         !.max_dd = IF deeper THEN dd ELSE acc.max_dd,
                         !.current = cur,
                         !.duration = IF cur > acc.duration
                                      THEN cur ELSE acc.duration])

\* lines 209-220: with more than one point and a positive time span the
\* annualized return is Decimal ** float, which Decimal does not support
AnnualizedReturnRaises(curve) ==
  /\ Len(curve) > 1
  /\ curve[Len(curve)].timestamp - curve[1].timestamp > 0

CountSide(tr, side) == Cardinality({i \in 1..Len(tr) : tr[i].side = side})

NoMetrics ==
  [total_return |-> [num |-> 0, den |-> 1], annualized_return |-> 0,
   max_drawdown |-> [num |-> 0, den |-> 1], max_drawdown_duration |-> 0,
   total_trades |-> 0, winning_trades |-> 0, losing_trades |-> 0]

\* _calculate_performance_metrics, where it returns: the metrics that are exact
\* (the Sharpe ratio and the per-trade averages are float statistics)
CalculatePerformanceMetrics(curve, tr, initial, final) ==
  IF curve = <<>> THEN NoMetrics
  ELSE LET scan == DrawdownScan(curve, 1,
                     [peak |-> initial, max_dd |-> [num |-> 0, den |-> 1],
                      duration |-> 0, current |-> 0])
       IN  [total_return |-> [num |-> final - initial, den |-> initial],
            annualized_return |-> 0,
            max_drawdown |-> scan.max_dd,
            max_drawdown_duration |-> scan.duration,
            total_trades |-> Len(tr),
            winning_trades |-> CountSide(tr, "BUY"),
            losing_trades |->
              Cardinality({i \in 1..Len(tr) :
                             tr[i].side # "BUY" /\ tr[i].quantity > 0})]

NoResult == [returned |-> FALSE, final_capital |-> 0, metrics |-> NoMetrics]

NoRun ==
  [valid |-> FALSE, configs |-> <<>>, candles |-> <<>>, equity_curve |-> <<>>,
   trades |-> <<>>, error |-> "", result |-> NoResult]

\* The engine as constructed: no portfolio yet, empty lists
EngineFields(capital) ==
  /\ initial_capital = capital
  /\ ties = {}
  /\ cash = 0
  /\ positions = [s \in Symbols |-> NoPosition]
  /\ realized_pnl = 0
  /\ equity = 0
  /\ trades = <<>>
  /\ ptrades = <<>>
  /\ last = [op |-> "init", signal |-> NoSignal, price |-> 0,
             trade |-> NoTrade, quantity |-> 0]
  /\ ops = 0
  /\ run_state = "idle"
  /\ configs = <<>>
  /\ candles = <<>>
  /\ bar_index = 0
  /\ strategy = NoStrategy
  /\ equity_curve = <<>>
  /\ error = ""
  /\ result = NoResult
  /\ runs = 0
  /\ prev = NoRun

\* a BacktestEngine and no analyzer call
InitEngine(capital) == EngineFields(capital) /\ AnalyticsIdle

InitRun == InitEngine(InitialCapital * MoneyScale)

\* an input check that looks at the configs only
InputsMissingConfigsOnly(strategy_configs, cs) == strategy_configs = <<>>

\* line 333
InputsMissing(strategy_configs, cs) == strategy_configs = <<>> \/ cs = <<>>

\* _create_strategy finds a class for the type
KnownStrategy(config) ==
  config.strategy_type \in {"ma_crossover", "ma_cluster_density"}

\* run(strategy_configs, candles) up to the loop, lines 333-347
RunStart(strategy_configs, cs) ==
  /\ run_state # "running"
  /\ runs' = runs + 1
  /\ prev' = [valid |-> runs > 0, configs |-> configs, candles |-> candles,
              equity_curve |-> equity_curve, trades |-> trades,
              error |-> error, result |-> result]
  /\ configs' = strategy_configs
  /\ candles' = cs
  /\ result' = NoResult
  /\ last' = [op |-> "run", signal |-> NoSignal, price |-> 0,
              trade |-> NoTrade, quantity |-> 0]
  /\ UNCHANGED analytics_vars
  /\ UNCHANGED <<ops, initial_capital, ties>>
  /\ IF InputsMissing(strategy_configs, cs)
     THEN /\ error' = "ValueError"
          /\ run_state' = "raised"
          /\ UNCHANGED <<ledger_vars, equity_curve, strategy, bar_index>>
     ELSE /\ SetLedger(FreshPortfolio(initial_capital))
          /\ equity_curve' = <<>>
          /\ bar_index' = 0
          /\ IF KnownStrategy(strategy_configs[1])
             THEN /\ strategy' = NewStrategy(strategy_configs[1])
                  /\ error' = ""
                  /\ run_state' = "running"
             ELSE /\ strategy' = NoStrategy
                  /\ error' = "ValueError"
                  /\ run_state' = "raised"

\* the first call of run on the engine, with any input
Run ==
  /\ runs = 0
  /\ \E strategy_configs \in ConfigLists, cs \in CandleLists :
       RunStart(strategy_configs, cs)

\* a later call of run on the same engine: the same input again, or that input
\* made one that run refuses (no config, no candle, a type without a class)
RunAgain ==
  /\ runs > 0
  /\ runs < MaxRuns
  /\ \E input \in {<<configs, candles>>, <<(<<>>), candles>>,
                    <<configs, (<<>>)>>,
                    <<(<<Config("custom")>>), candles>>} :
       RunStart(input[1], input[2])

\* one turn of the loop, lines 350-376
ProcessCandle ==
  /\ run_state = "running"
  /\ bar_index < Len(candles)
  /\ LET candle == candles[bar_index + 1]
         sb == OnBar(strategy, candle)
         signal == sb.signal
         outcomes ==
           IF signal # NoSignal
           THEN ExecuteSignalOutcomes(signal, candle.close, CurrentLedger,
                                      ties)
           ELSE {[ledger |-> CurrentLedger, trade |-> NoTrade,
                  quantity |-> 0, ties |-> ties]}
     IN  \E o \in outcomes :
           LET eq == MarkEquity(o.ledger.cash, o.ledger.positions,
                                [s \in Symbols |-> candle.close])
           IN  /\ SetLedger([o.ledger EXCEPT !.equity = eq])
               /\ equity_curve' =
                    Append(equity_curve,
                           EquityPoint(equity_curve, candle.timestamp, eq,
                                       initial_capital))
               /\ strategy' = sb.strategy
               /\ ties' = o.ties
               /\ last' = [op |-> "bar", signal |-> signal,
                           price |-> candle.close, trade |-> o.trade,
                           quantity |-> o.quantity]
  /\ bar_index' = bar_index + 1
  /\ UNCHANGED analytics_vars
  /\ UNCHANGED <<ops, initial_capital, run_state, configs, candles, error,
                 result, runs, prev>>

\* after the loop, lines 379-403
Finish ==
  /\ run_state = "running"
  /\ bar_index = Len(candles)
  /\ IF AnnualizedReturnRaises(equity_curve)
     THEN /\ error' = "TypeError"
          /\ run_state' = "raised"
          /\ result' = NoResult
     ELSE /\ error' = ""
          /\ run_state' = "returned"
          /\ result' = [returned |-> TRUE, final_capital |-> equity,
                        metrics |->
                          CalculatePerformanceMetrics(equity_curve, trades,
                                                      initial_capital, equity)]
  /\ last' = [op |-> "finish", signal |-> NoSignal, price |-> 0,
              trade |-> NoTrade, quantity |-> 0]
  /\ UNCHANGED analytics_vars
  /\ UNCHANGED <<ledger_vars, ops, initial_capital, ties, configs, candles,
                 bar_index, strategy, equity_curve, runs, prev>>

NextRun == Run \/ RunAgain \/ ProcessCandle \/ Finish

SpecRun == InitRun /\ [][NextRun]_vars

\* ----------------------------------------------------- the ledger harness
\* The ledger as run creates it, and any sequence of _execute_signal and
\* _update_portfolio calls on it
Init ==
  /\ initial_capital = InitialCapital * MoneyScale
  /\ ties = {}
  /\ cash = FreshPortfolio(initial_capital).cash
  /\ positions = FreshPortfolio(initial_capital).positions
  /\ realized_pnl = FreshPortfolio(initial_capital).realized_pnl
  /\ equity = FreshPortfolio(initial_capital).equity
  /\ trades = FreshPortfolio(initial_capital).trades
  /\ ptrades = FreshPortfolio(initial_capital).ptrades
  /\ last = [op |-> "init", signal |-> NoSignal, price |-> 0,
             trade |-> NoTrade, quantity |-> 0]
  /\ ops = 0
  /\ run_state = "idle"
  /\ configs = <<>>
  /\ candles = <<>>
  /\ bar_index = 0
  /\ strategy = NoStrategy
  /\ equity_curve = <<>>
  /\ error = ""
  /\ result = NoResult
  /\ runs = 0
  /\ prev = NoRun
  /\ AnalyticsIdle

\* one call of _execute_signal(signal, current_price, self.portfolio)
ExecuteSignal ==
  /\ ops < MaxOps
  /\ \E signal \in Signals, current_price \in Closes :
       \E o \in ExecuteSignalOutcomes(signal, current_price, CurrentLedger,
                                      ties) :
         /\ SetLedger(o.ledger)
         /\ ties' = o.ties
         /\ last' = [op |-> "execute", signal |-> signal,
                     price |-> current_price, trade |-> o.trade,
                     quantity |-> o.quantity]
  /\ ops' = ops + 1
  /\ UNCHANGED analytics_vars
  /\ UNCHANGED <<initial_capital, run_vars>>

\* one call of _update_portfolio(self.portfolio, {symbol: price})
UpdatePortfolio ==
  /\ ops < MaxOps
  /\ \E prices \in [Symbols -> Closes] :
       /\ equity' = MarkEquity(cash, positions, prices)
       /\ last' = [op |-> "update", signal |-> NoSignal, price |-> 0,
                   trade |-> NoTrade, quantity |-> 0]
  /\ ops' = ops + 1
  /\ UNCHANGED analytics_vars
  /\ UNCHANGED <<cash, positions, realized_pnl, trades, ptrades,
                 initial_capital, ties, run_vars>>

Next == ExecuteSignal \/ UpdatePortfolio

Spec == Init /\ [][Next]_vars

\* ------------------------------------------- the ledger, large requests
\* The same ledger under signals that ask for a tenth or nine tenths of the
\* equity, or for an absolute count far above anything the capital can hold
LargeSignalQuantities == {1, RateDen - 1, 200 * RateDen}

LargeSignals ==
  [timestamp : {0}, symbol : Symbols, side : {"BUY", "SELL"},
   has_quantity : {TRUE}, quantity : LargeSignalQuantities]

\* one call of _execute_signal(signal, current_price, self.portfolio)
ExecuteLargeSignal ==
  /\ ops < MaxOps
  /\ \E signal \in LargeSignals, current_price \in Closes :
       \E o \in ExecuteSignalOutcomes(signal, current_price, CurrentLedger,
                                      ties) :
         /\ SetLedger(o.ledger)
         /\ ties' = o.ties
         /\ last' = [op |-> "execute", signal |-> signal,
                     price |-> current_price, trade |-> o.trade,
                     quantity |-> o.quantity]
  /\ ops' = ops + 1
  /\ UNCHANGED analytics_vars
  /\ UNCHANGED <<initial_capital, run_vars>>

NextLarge == ExecuteLargeSignal \/ UpdatePortfolio

SpecLarge == Init /\ [][NextLarge]_vars

\* ------------------------------------------------- end-to-end scenario A
\* 100 hourly bars whose close rises by 10 per bar, MA crossover with windows
\* 5 and 10, initial capital 100000
ScenarioBars == 100
ScenarioStep == 10
ScenarioShortWindow == 5
ScenarioLongWindow == 10
ScenarioCapital == 100000

\* the close of the first bar: the scenario leaves it open
ScenarioBasePrices == {100, 42000}

ScenarioACandles(base) ==
  [i \in 1..ScenarioBars |->
     [timestamp |-> i, close |-> base + (i - 1) * ScenarioStep]]

ScenarioAConfig ==
  StrategyConfig("ma_crossover", ScenarioShortWindow, ScenarioLongWindow)

InitScenarioA == InitEngine(ScenarioCapital * MoneyScale)

\* engine.run([strategy_config], candles) of the scenario
RunScenarioA ==
  /\ runs = 0
  /\ \E base \in ScenarioBasePrices :
       RunStart(<<ScenarioAConfig>>, ScenarioACandles(base))

NextScenarioA == RunScenarioA \/ ProcessCandle \/ Finish

SpecScenarioA == InitScenarioA /\ [][NextScenarioA]_vars

\* ---------------------------------------------------------- longer runs
\* One run of the cluster-density strategy over LongRunBars hourly candles, with
\* either breakout_multiplier: long enough for a position to be opened, for the
\* cluster to dissolve and for a new one to form.
LongRunBars == 6
MaxLongRunClose == 4

LongRunCandles ==
  {[i \in 1..LongRunBars |-> [timestamp |-> i, close |-> closes[i]]] :
     closes \in [1..LongRunBars -> 1..MaxLongRunClose]}

InitLongRun == InitEngine(InitialCapital * MoneyScale)

RunLong ==
  /\ runs = 0
  /\ \E m \in BreakoutMultipliers, cs \in LongRunCandles :
       RunStart(<<WithBreakoutMultiplier(Config("ma_cluster_density"), m)>>,
                cs)

NextLongRun == RunLong \/ ProcessCandle \/ Finish

SpecLongRun == InitLongRun /\ [][NextLongRun]_vars

\* ------------------------------------------------- a strategy on its own
\* A strategy object that is fed bars and reset in any order.  candles holds
\* the bars fed since the last reset, bar_index counts the bars fed in all,
\* ops the resets, and prev keeps the strategy as the last reset found it.
MaxFed == 5
MaxResets == 1

\* a reset that leaves the position side in place
ResetKeepingPosition(st) ==
  IF st.kind = "ma_crossover"
  THEN [st EXCEPT !.bars = <<>>, !.signals = <<>>]
  ELSE [st EXCEPT !.bars = <<>>, !.signals = <<>>, !.cluster_formed = FALSE]

\* reset() of MACrossoverStrategy (bars, signals, current_position) and of
\* MAClusterDensityStrategy (these and cluster_formed)
Reset(st) ==
  IF st.kind = "ma_crossover"
  THEN [st EXCEPT !.bars = <<>>, !.signals = <<>>,
                  !.current_position = "None"]
  ELSE [st EXCEPT !.bars = <<>>, !.signals = <<>>,
                  !.current_position = "None", !.cluster_formed = FALSE]

\* the configs a strategy is constructed with
StrategyConfigs ==
  {Config("ma_crossover"),
   StrategyConfig("ma_crossover", ShortWindow, LongerWindow)}
    \cup {WithBreakoutMultiplier(Config("ma_cluster_density"), m) :
            m \in BreakoutMultipliers}

\* a strategy as constructed; the engine's own state is not involved
InitStrategy ==
  /\ initial_capital = InitialCapital * MoneyScale
  /\ ties = {}
  /\ cash = 0
  /\ positions = [s \in Symbols |-> NoPosition]
  /\ realized_pnl = 0
  /\ equity = 0
  /\ trades = <<>>
  /\ ptrades = <<>>
  /\ last = [op |-> "init", signal |-> NoSignal, price |-> 0,
             trade |-> NoTrade, quantity |-> 0]
  /\ ops = 0
  /\ run_state = "idle"
  /\ \E config \in StrategyConfigs :
       /\ configs = <<config>>
       /\ strategy = NewStrategy(config)
  /\ candles = <<>>
  /\ bar_index = 0
  /\ equity_curve = <<>>
  /\ error = ""
  /\ result = NoResult
  /\ runs = 0
  /\ prev = NoRun
  /\ AnalyticsIdle

\* strategy.on_bar(bar) with the next bar, of any close
StrategyOnBar ==
  /\ bar_index < MaxFed
  /\ \E close \in BarCloses :
       LET bar == [timestamp |-> bar_index + 1, close |-> close]
           sb == OnBar(strategy, bar)
       IN  /\ strategy' = sb.strategy
           /\ candles' = Append(candles, bar)
           /\ last' = [op |-> "on_bar", signal |-> sb.signal,
                       price |-> close, trade |-> NoTrade, quantity |-> 0]
  /\ bar_index' = bar_index + 1
  /\ UNCHANGED analytics_vars
  /\ UNCHANGED <<ledger_vars, initial_capital, ties, ops, run_state, configs,
                 equity_curve, error, result, runs, prev>>

\* strategy.reset()
StrategyReset ==
  /\ ops < MaxResets
  /\ ops' = ops + 1
  /\ strategy' = Reset(strategy)
  /\ prev' = strategy
  /\ candles' = <<>>
  /\ last' = [op |-> "reset", signal |-> NoSignal, price |-> 0,
              trade |-> NoTrade, quantity |-> 0]
  /\ UNCHANGED analytics_vars
  /\ UNCHANGED <<ledger_vars, initial_capital, ties, run_state, configs,
                 bar_index, equity_curve, error, result, runs>>

NextStrategy == StrategyOnBar \/ StrategyReset

SpecStrategy == InitStrategy /\ [][NextStrategy]_vars

\* ------------------------------------------------------------ MetaEngine
\* chaos_index, whale_activity_index, leverage_risk_index and
\* impulsiveness_index are floats; the model takes the multiples of
\* 1/IndexScale, a grid that holds every threshold of the code (0.3, 0.7, 0.8,
\* 0.9) and the values between them
IndexScale == 20

\* chaos_index arguments: the grid over [0, 1] and a value off either end
ChaosIndices == (-1)..(IndexScale + 1)

\* whale_activity_index and leverage_risk_index arguments
WhaleIndices == {-1, 0, IndexScale \div 2, IndexScale, IndexScale + 1}

LeverageIndices == {-1, 0, 14, 15, 16, 17, IndexScale, IndexScale + 1}

\* behavior_metrics arguments: None, or a BehaviorMetrics (a dataclass: any
\* impulsiveness_index, any consecutive_losses)
NoBehaviorMetrics ==
  [supplied |-> FALSE, impulsiveness_index |-> 0, consecutive_losses |-> 0]

BehaviorMetricsArguments ==
  {NoBehaviorMetrics}
    \cup [supplied : {TRUE},
          impulsiveness_index :
            {-IndexScale, 0, IndexScale \div 2, IndexScale, 6 * IndexScale},
          consecutive_losses : {0, 2, 3, 4, 5, 6}]

\* the optional volatility and noise_to_signal of classify_regime: None or a
\* float
NoFloat == [given |-> FALSE, value |-> 0]

OptionalFloats ==
  {NoFloat} \cup [given : {TRUE}, value : {0, IndexScale}]

\* a regime classification whose breakpoints belong to the outer regimes
ClassifyRegimeInclusive(chaos_index, volatility, noise_to_signal) ==
  IF chaos_index * 10 <= 3 * IndexScale THEN "TREND"
  ELSE IF chaos_index * 10 >= 7 * IndexScale THEN "CHAOTIC"
  ELSE "NEUTRAL"

\* ChaosEngine.classify_regime
ClassifyRegime(chaos_index, volatility, noise_to_signal) ==
  IF chaos_index * 10 < 3 * IndexScale THEN "TREND"
  ELSE IF chaos_index * 10 > 7 * IndexScale THEN "CHAOTIC"
  ELSE "NEUTRAL"

\* base multipliers with those of NEUTRAL and CHAOTIC exchanged
BaseMultiplierExchanged(regime) ==
  IF regime = "TREND" THEN 10 ELSE IF regime = "CHAOTIC" THEN 7 ELSE 3

\* lines 58-63, over 10
BaseMultiplier(regime) ==
  IF regime = "TREND" THEN 10 ELSE IF regime = "CHAOTIC" THEN 3 ELSE 7

\* `if behavior_metrics:`: None is false, a BehaviorMetrics object is true
Supplied(behavior_metrics) == behavior_metrics.supplied

\* a multiplier returned as the product came out
Unclamped(num, den) == [num |-> num, den |-> den]

\* max(0.0, min(1.0, x)) of the quotient num / den, den > 0
Clamp01(num, den) ==
  IF num < 0 THEN [num |-> 0, den |-> 1]
  ELSE IF num > den THEN [num |-> 1, den |-> 1]
  ELSE [num |-> num, den |-> den]

\* lines 56-84: the product of the base multiplier and the penalties, clamped;
\* the quotient is kept as numerator and denominator
PositionMultiplier(regime, whale_activity_index, leverage_risk_index, behavior_metrics) ==
  LET leverage_num == 10 * IndexScale - 3 * leverage_risk_index
      whale_num == 10 * IndexScale - 2 * whale_activity_index
      core_num == BaseMultiplier(regime) * leverage_num * whale_num
      core_den == 10 * (10 * IndexScale) * (10 * IndexScale)
  IN  IF Supplied(behavior_metrics)
      THEN LET impulsiveness_num ==
                 10 * IndexScale - 2 * behavior_metrics.impulsiveness_index
               halved == behavior_metrics.consecutive_losses >= 3
           IN  Clamp01(core_num * impulsiveness_num,
                       core_den * (10 * IndexScale)
                         * (IF halved THEN 2 ELSE 1))
      ELSE Clamp01(core_num, core_den)

\* a halt that forgets the leverage condition of the first rule
AllowNewTradesChaosOnly(chaos_index, regime, leverage_risk_index, behavior_metrics) ==
  ~(\/ chaos_index * 10 > 9 * IndexScale
    \/ regime = "CHAOTIC" /\ leverage_risk_index * 10 > 7 * IndexScale
    \/ Supplied(behavior_metrics) /\ behavior_metrics.consecutive_losses >= 5)

\* lines 86-95
AllowNewTrades(chaos_index, regime, leverage_risk_index, behavior_metrics) ==
  IF chaos_index * 10 > 9 * IndexScale
       /\ leverage_risk_index * 10 > 8 * IndexScale
  THEN FALSE
  ELSE IF regime = "CHAOTIC" /\ leverage_risk_index * 10 > 7 * IndexScale
  THEN FALSE
  ELSE IF Supplied(behavior_metrics)
            /\ behavior_metrics.consecutive_losses >= 5
  THEN FALSE
  ELSE TRUE

\* RegimeInfo declares chaos_index, whale_activity_index, leverage_risk_index
\* and position_multiplier with ge=0, le=1: constructing one with a value
\* outside raises a ValidationError
ValidIndex(x) == 0 <= x /\ x <= IndexScale

\* MetaEngine.evaluate_regime: the RegimeInfo returned, or the error raised
EvaluateRegime(chaos_index, whale_activity_index, leverage_risk_index, behavior_metrics) ==
  LET regime == ClassifyRegime(chaos_index, NoFloat, NoFloat)
  IN  IF ValidIndex(chaos_index) /\ ValidIndex(whale_activity_index)
           /\ ValidIndex(leverage_risk_index)
      THEN [op |-> "evaluate_regime", error |-> "", regime |-> regime,
            position_multiplier |->
              PositionMultiplier(regime, whale_activity_index,
                                 leverage_risk_index, behavior_metrics),
            allow_new_trades |->
              AllowNewTrades(chaos_index, regime, leverage_risk_index,
                             behavior_metrics)]
      ELSE [op |-> "evaluate_regime", error |-> "ValidationError",
            regime |-> regime,
            position_multiplier |-> [num |-> 0, den |-> 1],
            allow_new_trades |-> FALSE]

\* the arguments of one analyzer call; nothing was called yet
ClassifyRegimeCalls ==
  [op : {"classify_regime"}, chaos_index : ChaosIndices,
   volatility : OptionalFloats, noise_to_signal : OptionalFloats]

EvaluateRegimeCalls ==
  [op : {"evaluate_regime"}, chaos_index : ChaosIndices,
   whale_activity_index : WhaleIndices,
   leverage_risk_index : LeverageIndices,
   behavior_metrics : BehaviorMetricsArguments]

\* no backtest; the arguments of the call to come
InitMeta ==
  /\ EngineFields(InitialCapital * MoneyScale)
  /\ args \in ClassifyRegimeCalls \cup EvaluateRegimeCalls
  /\ out = NoCall
  /\ microstructure_engine = NewMicrostructureEngine
  /\ behavior_engine = NewBehaviorEngine
  /\ clock = 0

\* ChaosEngine().classify_regime(chaos_index, volatility, noise_to_signal)
CallClassifyRegime ==
  /\ args.op = "classify_regime"
  /\ out = NoCall
  /\ out' = [op |-> "classify_regime", error |-> "",
             regime |-> ClassifyRegime(args.chaos_index, args.volatility,
                                       args.noise_to_signal)]
  /\ UNCHANGED <<backtest_vars, args, microstructure_engine, behavior_engine,
                 clock>>

\* MetaEngine().evaluate_regime(chaos_index, whale_activity_index,
\* leverage_risk_index, behavior_metrics)
CallEvaluateRegime ==
  /\ args.op = "evaluate_regime"
  /\ out = NoCall
  /\ out' = EvaluateRegime(args.chaos_index, args.whale_activity_index,
                           args.leverage_risk_index, args.behavior_metrics)
  /\ UNCHANGED <<backtest_vars, args, microstructure_engine, behavior_engine,
                 clock>>

NextMeta == CallClassifyRegime \/ CallEvaluateRegime

SpecMeta == InitMeta /\ [][NextMeta]_vars

\* ------------------------------------------------------------ ChaosEngine
\* Floats.  A close is given by its logarithm: log_close k stands for the
\* close exp(k / 100), so every close is positive and a log return is a whole
\* number of hundredths.  Of the results, a value that is a quotient of
\* integers is kept exactly; math.log of a quotient of squared distances is
\* taken from LnTable, to 1/FloatScale.
FloatScale == 100

\* round(FloatScale * ln(n)) for n = 1 .. 48
LnTable ==
  <<
    0, 69, 110, 139, 161, 179, 195, 208, 220, 230, 240, 248,
    256, 264, 271, 277, 283, 289, 294, 300, 304, 309, 314, 318,
    322, 326, 330, 333, 337, 340, 343, 347, 350, 353, 356, 358,
    361, 364, 366, 369, 371, 374, 376, 378, 381, 383, 385, 387
  >>

\* ChaosEngine(embedding_dimension=3, delay=1) and max_time=10
EmbeddingDimension == 3
Delay == 1
MaxTime == 10

\* the least common multiple of the time offsets 1 .. MaxTime - 1
OffsetLcm == 2520

\* a Candle as the analyzers read it
MakeCandle(log_close, volume) == [log_close |-> log_close, volume |-> volume]

\* candles[-window:]
Recent(cs, window) ==
  IF window = 0 \/ window >= Len(cs) THEN cs
  ELSE SubSeq(cs, Len(cs) - window + 1, Len(cs))

\* calculate_returns of the closes of the candles: np.diff(np.log(prices)), in
\* hundredths
CalculateReturns(cs) ==
  IF Len(cs) < 2 THEN <<>>
  ELSE [i \in 1..(Len(cs) - 1) |-> cs[i + 1].log_close - cs[i].log_close]

\* lines 65-70: coordinate d of the embedded point that starts at return i
Embedded(returns, i, d) == returns[i + (d - 1) * Delay]

\* the square of np.linalg.norm(embedded[i] - embedded[j])
RECURSIVE SquaredNorm(_, _, _, _)
SquaredNorm(returns, i, j, d) ==
  IF d = 0 THEN 0
  ELSE LET difference == Embedded(returns, i, d) - Embedded(returns, j, d)
       IN  difference * difference + SquaredNorm(returns, i, j, d - 1)

SquaredDistance(returns, i, j) ==
  SquaredNorm(returns, i, j, EmbeddingDimension)

\* lines 80-84: np.argmin takes the first of the nearest later points; best
\* is the nearest of the points before j
RECURSIVE NearestNeighbour(_, _, _, _, _)
NearestNeighbour(returns, i, j, count, best) ==
  IF j > count THEN best
  ELSE IF SquaredDistance(returns, i, j) < SquaredDistance(returns, i, best)
       THEN NearestNeighbour(returns, i, j + 1, count, j)
       ELSE NearestNeighbour(returns, i, j + 1, count, best)

\* lines 85-98 for the point i: <<i, t, divergence>> for every offset t whose
\* divergence is recorded; the divergence is
\* np.log(distance_t / initial_distance) / t, times 2 * OffsetLcm * FloatScale
Divergences(returns, i, count) ==
  LET nearest == NearestNeighbour(returns, i, i + 1, count, i + 1)
      initial == SquaredDistance(returns, i, nearest)
  IN  IF initial = 0 THEN {}
      ELSE {<<i, t, (LnTable[SquaredDistance(returns, nearest + t, i + t)]
                       - LnTable[initial]) * (OffsetLcm \div t)>> :
              t \in {u \in 1..(Min(MaxTime, count - nearest + 1) - 1) :
                       SquaredDistance(returns, nearest + u, i + u) > 0}}

RECURSIVE SumOver(_)
SumOver(S) ==
  IF S = {} THEN 0
  ELSE LET x == CHOOSE y \in S : TRUE IN x[3] + SumOver(S \ {x})

\* approximate_lyapunov_exponent(returns): the quotient num / den
ApproximateLyapunovExponent(returns) ==
  LET count == Len(returns) - (EmbeddingDimension - 1) * Delay
      zero == [num |-> 0, den |-> 2]
  IN  IF Len(returns) < EmbeddingDimension * Delay + MaxTime THEN zero
      ELSE IF count < 10 THEN zero
      ELSE LET divergences ==
                 UNION {Divergences(returns, i, count) :
                          i \in 1..(count - MaxTime)}
           IN  IF divergences = {} THEN zero
               ELSE [num |-> SumOver(divergences),
                     den |-> 2 * OffsetLcm * FloatScale
                               * Cardinality(divergences)]

\* the distance evaluations of the neighbour search (lines 77-80): for each
\* point i of range(len(embedded) - max_time), one per later point
DistanceEvaluations(returns) ==
  LET count == Len(returns) - (EmbeddingDimension - 1) * Delay
  IN  IF Len(returns) < EmbeddingDimension * Delay + MaxTime THEN 0
      ELSE IF count < 10 THEN 0
      ELSE SumOfSeq([i \in 1..(count - MaxTime) |-> count - i])

\* approximate_lyapunov_exponent(returns, max_time=10) called with the
\* keywords given: the signature (lines 42-46) has no parameter for a budget,
\* and Python raises TypeError for a keyword a function does not take
CallOfApproximateLyapunovExponent(returns, budget) ==
  IF budget.given
  THEN [op |-> "approximate_lyapunov_exponent", error |-> "TypeError",
        value |-> [num |-> 0, den |-> 2], distances |-> 0]
  ELSE [op |-> "approximate_lyapunov_exponent", error |-> "",
        value |-> ApproximateLyapunovExponent(returns),
        distances |-> DistanceEvaluations(returns)]

\* a chaos index that is the mapped exponent as it comes
MappedOnly(num, den) == [num |-> num, den |-> den]

\* line 145: max(0.0, min(1.0, chaos_index))
ClampChaosIndex(num, den) ==
  IF num < 0 THEN [num |-> 0, den |-> 1]
  ELSE IF num > den THEN [num |-> 1, den |-> 1]
  ELSE [num |-> num, den |-> den]

\* a default of 0.0 in place of the neutral one
LowestIndex == [num |-> 0, den |-> 1]

\* the neutral 0.5 of lines 125 and 135
NeutralIndex == [num |-> 1, den |-> 2]

\* the exponent with no offset
Unshifted(lyap) == [num |-> lyap.num, den |-> lyap.den]

\* line 144: (lyap + 0.5) / 1.0; lyap.den is even
MapExponent(lyap) == [num |-> lyap.num + lyap.den \div 2, den |-> lyap.den]

\* calculate_chaos_index(candles, window)
CalculateChaosIndex(cs, window) ==
  IF Len(cs) < window THEN NeutralIndex
  ELSE LET returns == CalculateReturns(Recent(cs, window))
       IN  IF Len(returns) < 10 THEN NeutralIndex
           ELSE LET lyap == ApproximateLyapunovExponent(returns)
                    mapped == MapExponent(lyap)
                IN  ClampChaosIndex(mapped.num, mapped.den)

\* the variance of the values, a quotient: np.std squared
Variance(q) ==
  LET n == Len(q)
      total == SumOfSeq(q)
      squares == SumOfSeq([i \in 1..n |-> q[i] * q[i]])
  IN  [num |-> n * squares - total * total, den |-> n * n]

\* calculate_volatility(candles, window): the square of the result, which is
\* np.std(returns) * np.sqrt(24 * 365), returns in hundredths
CalculateVolatility(cs, window) ==
  IF Len(cs) < window THEN [num |-> 0, den |-> 1]
  ELSE LET returns == CalculateReturns(Recent(cs, window))
       IN  IF Len(returns) < 2 THEN [num |-> 0, den |-> 1]
           ELSE LET v == Variance(returns)
                IN  [num |-> v.num * 24 * 365, den |-> v.den * 100 * 100]
\* ------------------------------------------------------------ MicrostructureEngine
\* volume_threshold_ratio = 0.01, as a divisor
VolumeThresholdDivisor == 100

\* self.trades[-100:]
TradeTail == 100

\* the bars that calculate_leverage_risk_index needs and reads
LeverageMinBars == 20
LeverageBars == 50

\* a funding rate is in 1/FundingScale; abs(rate) * 100 reaches 1.0 at
\* FundingScale / 100
FundingScale == 10000

\* record_trade(trade)
RecordTrade(engine, trade) ==
  [engine EXCEPT !.trades = Append(@, trade)]

Volumes(cs) == [i \in 1..Len(cs) |-> cs[i].volume]

\* a threshold of three deviations above the mean
AboveThreeDeviations(v, n, total, spread) ==
  LET excess == n * v - total
  IN  excess > 0 /\ excess * excess > 9 * spread

\* line 68: v > avg_volume + 2 * std_volume, over the integers: for n values
\* of sum total, n*v - total > 2 * sqrt(spread), where spread is n * (the sum
\* of the squares) - total * total
AboveThreshold(v, n, total, spread) ==
  LET excess == n * v - total
  IN  excess > 0 /\ excess * excess > 4 * spread

\* line 83: activity_ratio * 0.6 + large_trade_ratio * 0.4
Weighted(count, n, large, k) ==
  [num |-> 6 * count * k + 4 * large * n, den |-> 10 * n * k]

\* calculate_whale_activity_index(candles, window) of an engine
CalculateWhaleActivityIndex(engine, cs, window) ==
  LET volumes == Volumes(Recent(cs, window))
      n == Len(volumes)
      total == SumOfSeq(volumes)
      spread == Variance(volumes).num
      large_volume_count ==
        Cardinality({i \in 1..n :
                       AboveThreshold(volumes[i], n, total, spread)})
      tail == Recent(engine.trades, TradeTail)
      large_trades ==
        Cardinality({i \in 1..Len(tail) :
          tail[i].quantity * tail[i].price * VolumeThresholdDivisor * n
            > total})
      whale_index ==
        IF tail = <<>> THEN Weighted(large_volume_count, n, 0, 1)
        ELSE Weighted(large_volume_count, n, large_trades, Len(tail))
  IN  IF Len(cs) < window THEN [num |-> 0, den |-> 1]
      ELSE IF n = 0 THEN [num |-> 0, den |-> 1]
      ELSE IF total = 0 THEN [num |-> 0, den |-> 1]
      ELSE \* min(1.0, whale_index)
           IF whale_index.num > whale_index.den THEN [num |-> 1, den |-> 1]
           ELSE whale_index

Range(q) == {q[i] : i \in 1..Len(q)}

\* the whole part of a square root
RECURSIVE FloorSqrtBetween(_, _, _)
FloorSqrtBetween(n, lo, hi) ==
  IF lo = hi THEN lo
  ELSE LET mid == (lo + hi + 1) \div 2
       IN  IF mid * mid <= n THEN FloorSqrtBetween(n, mid, hi)
           ELSE FloorSqrtBetween(n, lo, mid - 1)

\* min(1.0, sqrt(num / den)) in 1/FloatScale
CappedRoot(num, den) ==
  IF num >= den THEN FloatScale
  ELSE FloorSqrtBetween((num * FloatScale * FloatScale) \div den,
                        0, FloatScale)

\* lines 115-121: min(1.0, volatility * 100), the returns in hundredths
VolFactor(cs) ==
  LET v == Variance(CalculateReturns(Recent(cs, LeverageBars)))
  IN  CappedRoot(v.num, v.den)

\* lines 124-130: min(1.0, (max / min - 1.0) / 2.0), the ratio 1.0 when the
\* least value is not positive
OiFactor(oi_values) ==
  LET least == CHOOSE x \in Range(oi_values) :
                 \A y \in Range(oi_values) : x <= y
      most  == CHOOSE x \in Range(oi_values) :
                 \A y \in Range(oi_values) : x >= y
  IN  IF least <= 0 THEN 0
      ELSE Min(FloatScale, ((most - least) * FloatScale) \div (2 * least))

\* lines 133-136: min(1.0, np.std(volumes) / np.mean(volumes))
VolumeFactor(cs) ==
  LET volumes == Volumes(Recent(cs, LeverageBars))
      total == SumOfSeq(volumes)
  IN  IF total > 0 THEN CappedRoot(Variance(volumes).num, total * total)
      ELSE 0

\* lines 139-144, in 1/(FloatScale * 10): the weighted funding factor, or 0.1
FundingTerm(mock_funding_rate) ==
  IF mock_funding_rate.given
  THEN 3 * Min(FloatScale,
               (Abs(mock_funding_rate.value) * 100 * FloatScale)
                 \div FundingScale)
  ELSE FloatScale

\* lines 121, 130, 136, 147-149: min(1.0, sum(risk_factors))
SumOfRiskFactors(vol, second, funding) ==
  LET leverage_risk == 4 * vol + 3 * second + funding
  IN  [num |-> Min(FloatScale * 10, leverage_risk), den |-> FloatScale * 10]

\* calculate_leverage_risk_index(candles, mock_oi_data, mock_funding_rate);
\* mock_oi_data is the list of the values, empty when nothing is supplied
CalculateLeverageRiskIndex(cs, mock_oi_data, mock_funding_rate) ==
  IF Len(cs) < LeverageMinBars THEN [num |-> 0, den |-> 1]
  ELSE SumOfRiskFactors(
         VolFactor(cs),
         IF mock_oi_data # <<>> THEN OiFactor(mock_oi_data)
         ELSE VolumeFactor(cs),
         FundingTerm(mock_funding_rate))
\* ------------------------------------------------------------ analyzer calls
\* The candle lists the analyzers are given.  The longest list for the chaos
\* index, the longest for the whale index, the trades recorded before a call.
MaxChaosBars == 14
MaxWhaleBars == 50
MaxMicroTrades == 2

\* the log returns, in hundredths, between the bars of a chaos index list; the
\* returns after the first CalmReturns are Jumps times as large
ReturnSteps == {0, 1}
CalmReturns == 10
Jumps == {1, 4}

\* n candles whose closes follow the steps from exp(0)
CandlesOfSteps(n, steps, jump) ==
  LET returns == [i \in 1..Len(steps) |->
                    IF i > CalmReturns THEN jump * steps[i] ELSE steps[i]]
  IN  [i \in 1..n |-> MakeCandle(SumOfSeq(SubSeq(returns, 1, i - 1)), 1)]

\* the numbers of candles of the lists
ChaosLengths == {0, 1, 10, 11, MaxChaosBars}

ChaosWindows == {0, 10, MaxChaosBars, MaxChaosBars + 1}

\* n candles: the log returns alternate between odd and even, the volume is
\* first on the first bar, final on the last bar and base between
PatternCandles(n, odd, even, base, first, final) ==
  [i \in 1..n |->
     MakeCandle((i \div 2) * odd + ((i - 1) \div 2) * even,
                IF i = 1 THEN first ELSE IF i = n THEN final ELSE base)]

WhaleLengths == {0, 9, 10, 11, 20, MaxWhaleBars}

WhaleCandleLists ==
  {PatternCandles(n, 0, 0, base, first, final) :
     n \in WhaleLengths, base \in {0, 1, 100},
     first \in {0, 10, 19}, final \in {0, 1, 10, 40}}

WhaleWindows == {0, 10, 20, MaxWhaleBars, MaxWhaleBars + 1}

\* a Trade as the microstructure engine reads it
MicroTrades == [quantity : {1}, price : {1, 50}]

LeverageLengths ==
  {0, LeverageMinBars - 1, LeverageMinBars, LeverageMinBars + 1,
   LeverageBars + 1}

LeverageCandleLists ==
  {PatternCandles(n, odd, even, base, first, base) :
     n \in LeverageLengths, odd \in {0, 1, 3}, even \in {0, 1, 3},
     base \in {0, 1}, first \in {0, 1}}

VolatilityWindows == {0, 2, 3, LeverageMinBars, LeverageMinBars + 1}

\* the values of mock_oi_data, empty for None and for {}
OiData == {<<>>, <<2>>, <<2, 3>>, <<1, 4>>, <<0, 3>>}

\* mock_funding_rate: None or a rate in 1/FundingScale
FundingRates ==
  {NoFloat} \cup [given : {TRUE}, value : {-200, -50, 0, 50, 100}]

\* calculate_chaos_index(candles, window) for a list of n candles
ChaosIndexCall(n, steps, jump, window) ==
  [op |-> "calculate_chaos_index", candles |-> CandlesOfSteps(n, steps, jump),
   window |-> window]

\* the budget of distance evaluations given to the neighbour search, if any
NoBudget == [given |-> FALSE, value |-> 0]
Budgets == {NoBudget} \cup [given : {TRUE}, value : {1, 100}]
LyapunovLengths == {11, MaxChaosBars}

\* approximate_lyapunov_exponent(returns, budget) for the returns of n candles
LyapunovCall(n, steps, budget) ==
  [op |-> "approximate_lyapunov_exponent",
   returns |-> CalculateReturns(CandlesOfSteps(n, steps, 1)),
   budget |-> budget]

VolatilityCalls ==
  [op : {"calculate_volatility"}, candles : LeverageCandleLists,
   window : VolatilityWindows]

WhaleActivityCalls ==
  [op : {"calculate_whale_activity_index"}, candles : WhaleCandleLists,
   window : WhaleWindows]

LeverageRiskCalls ==
  [op : {"calculate_leverage_risk_index"}, candles : LeverageCandleLists,
   mock_oi_data : OiData, mock_funding_rate : FundingRates]

\* no backtest; fresh engines and the arguments of the call to come
InitAnalyzers ==
  /\ EngineFields(InitialCapital * MoneyScale)
  /\ \/ \E n \in ChaosLengths, jump \in Jumps, window \in ChaosWindows :
          \E steps \in [1..(n - 1) -> ReturnSteps] :
            args = ChaosIndexCall(n, steps, jump, window)
     \/ \E n \in LyapunovLengths, budget \in Budgets :
          \E steps \in [1..(n - 1) -> ReturnSteps] :
            args = LyapunovCall(n, steps, budget)
     \/ args \in VolatilityCalls \cup WhaleActivityCalls
                   \cup LeverageRiskCalls
  /\ out = NoCall
  /\ microstructure_engine = NewMicrostructureEngine
  /\ behavior_engine = NewBehaviorEngine
  /\ clock = 0

\* MicrostructureEngine.record_trade(trade), ahead of a whale index call
MicroRecordTrade ==
  /\ args.op = "calculate_whale_activity_index"
  /\ out = NoCall
  /\ Len(microstructure_engine.trades) < MaxMicroTrades
  /\ \E trade \in MicroTrades :
       microstructure_engine' = RecordTrade(microstructure_engine, trade)
  /\ UNCHANGED <<backtest_vars, args, out, behavior_engine, clock>>

\* ChaosEngine().calculate_chaos_index(candles, window)
CallCalculateChaosIndex ==
  /\ args.op = "calculate_chaos_index"
  /\ out = NoCall
  /\ out' = [op |-> "calculate_chaos_index",
             value |-> CalculateChaosIndex(args.candles, args.window)]
  /\ UNCHANGED <<backtest_vars, args, microstructure_engine, behavior_engine,
                 clock>>

\* ChaosEngine().approximate_lyapunov_exponent(returns, ...)
CallApproximateLyapunovExponent ==
  /\ args.op = "approximate_lyapunov_exponent"
  /\ out = NoCall
  /\ out' = CallOfApproximateLyapunovExponent(args.returns, args.budget)
  /\ UNCHANGED <<backtest_vars, args, microstructure_engine, behavior_engine,
                 clock>>

\* ChaosEngine().calculate_volatility(candles, window); the value is the
\* square of the volatility
CallCalculateVolatility ==
  /\ args.op = "calculate_volatility"
  /\ out = NoCall
  /\ out' = [op |-> "calculate_volatility",
             value |-> CalculateVolatility(args.candles, args.window)]
  /\ UNCHANGED <<backtest_vars, args, microstructure_engine, behavior_engine,
                 clock>>

\* microstructure_engine.calculate_whale_activity_index(candles, window)
CallCalculateWhaleActivityIndex ==
  /\ args.op = "calculate_whale_activity_index"
  /\ out = NoCall
  /\ out' = [op |-> "calculate_whale_activity_index",
             value |-> CalculateWhaleActivityIndex(microstructure_engine,
                                                   args.candles, args.window)]
  /\ UNCHANGED <<backtest_vars, args, microstructure_engine, behavior_engine,
                 clock>>

\* microstructure_engine.calculate_leverage_risk_index(candles, mock_oi_data,
\* mock_funding_rate)
CallCalculateLeverageRiskIndex ==
  /\ args.op = "calculate_leverage_risk_index"
  /\ out = NoCall
  /\ out' = [op |-> "calculate_leverage_risk_index",
             value |-> CalculateLeverageRiskIndex(args.candles,
                                                  args.mock_oi_data,
                                                  args.mock_funding_rate)]
  /\ UNCHANGED <<backtest_vars, args, microstructure_engine, behavior_engine,
                 clock>>

NextAnalyzers ==
  \/ MicroRecordTrade
  \/ CallCalculateChaosIndex
  \/ CallApproximateLyapunovExponent
  \/ CallCalculateVolatility
  \/ CallCalculateWhaleActivityIndex
  \/ CallCalculateLeverageRiskIndex

SpecAnalyzers == InitAnalyzers /\ [][NextAnalyzers]_vars

\* ------------------------------------------------------------ BehaviorEngine
\* Timestamps and the wall clock are in seconds; intervals are in
\* milliseconds, as delta.total_seconds() * 1000.
MillisPerSecond == 1000
SecondsPerHour == 3600

\* lines 102-108: one minute and one hour, in milliseconds
ShortInterval == 60000
LongInterval == 3600000

\* line 132: an extreme is near a trade within an hour, in seconds
NearbySeconds == 3600

\* lines 146 and 150: 0.98 and 1.02, over 100
ChaseBuyPct == 98
ChaseSellPct == 102

\* line 83: the timestamps at or after the cutoff, in recorded order
RECURSIVE SelectAtOrAfter(_, _)
SelectAtOrAfter(timestamps, cutoff) ==
  IF timestamps = <<>> THEN <<>>
  ELSE IF Head(timestamps) >= cutoff
       THEN <<Head(timestamps)>> \o SelectAtOrAfter(Tail(timestamps), cutoff)
       ELSE SelectAtOrAfter(Tail(timestamps), cutoff)

\* lines 89-92: the intervals between consecutive timestamps, in milliseconds
Intervals(timestamps) ==
  [i \in 1..(Len(timestamps) - 1) |->
     (timestamps[i + 1] - timestamps[i]) * MillisPerSecond]

\* line 82: datetime.now() - timedelta(hours=window_hours)
Cutoff(engine, now, window_hours) == now - window_hours * SecondsPerHour

\* a map that returns 1.0 below one hour and 0.0 from there
StepAtLongInterval(total, count) ==
  IF total < LongInterval * count THEN [num |-> 1, den |-> 1]
  ELSE [num |-> 0, den |-> 1]

\* lines 97-108 for intervals of sum total and number count
MapInterval(total, count) ==
  IF total < ShortInterval * count THEN [num |-> 1, den |-> 1]
  ELSE IF total > LongInterval * count THEN [num |-> 0, den |-> 1]
  ELSE [num |-> LongInterval * count - total,
        den |-> (LongInterval - ShortInterval) * count]

\* calculate_impulsiveness_index(window_hours) at the wall-clock time now
CalculateImpulsivenessIndex(engine, now, window_hours) ==
  IF Len(engine.operation_timestamps) < 2 THEN [num |-> 0, den |-> 1]
  ELSE LET recent_ops ==
             SelectAtOrAfter(engine.operation_timestamps,
                             Cutoff(engine, now, window_hours))
           intervals == Intervals(recent_ops)
       IN  IF Len(recent_ops) < 2 THEN [num |-> 0, den |-> 1]
           ELSE MapInterval(SumOfSeq(intervals), Len(intervals))

\* lines 129-133: the items of local_extremes within an hour of the trade
NearbyExtremes(engine, trade) ==
  {i \in 1..Len(engine.local_extremes) :
     Abs(trade.timestamp - engine.local_extremes[i].timestamp)
       < NearbySeconds}

\* line 139: min(nearby_extremes, key=time_diff) is the first of the nearest
ClosestExtreme(engine, trade) ==
  LET nearby == NearbyExtremes(engine, trade)
      diff(i) == Abs(trade.timestamp - engine.local_extremes[i].timestamp)
  IN  CHOOSE i \in nearby :
        /\ \A j \in nearby : diff(i) <= diff(j)
        /\ \A j \in nearby : (j < i) => (diff(j) > diff(i))

\* lines 144-151
IsChase(engine, trade) ==
  LET ext_price == engine.local_extremes[ClosestExtreme(engine, trade)].price
  IN  IF trade.side = "BUY"
      THEN trade.price * 100 >= ext_price * ChaseBuyPct
      ELSE trade.price * 100 <= ext_price * ChaseSellPct

\* the least number of trades that line 121 asks for
MinChaseTrades == 2

\* calculate_chase_selloff_index()
CalculateChaseSelloffIndex(engine) ==
  LET checked == {i \in 1..Len(engine.trades) :
                    NearbyExtremes(engine, engine.trades[i]) # {}}
      chase == {i \in checked : IsChase(engine, engine.trades[i])}
  IN  IF Len(engine.trades) < MinChaseTrades \/ engine.local_extremes = <<>>
      THEN [num |-> 0, den |-> 1]
      ELSE IF checked = {} THEN [num |-> 0, den |-> 1]
      ELSE [num |-> Cardinality(chase), den |-> Cardinality(checked)]

\* a count of losses that is always zero
NoConsecutiveLosses(engine) == 0

\* detect_consecutive_losses()
DetectConsecutiveLosses(engine) ==
  IF engine.trades = <<>> THEN 0 ELSE Len(engine.trades) - 1

\* get_metrics() at the wall-clock time now; avg_operation_interval_ms is the
\* quotient of avg_interval_total by avg_interval_count
GetMetrics(engine, now) ==
  LET intervals == Intervals(engine.operation_timestamps)
  IN  [impulsiveness_index |-> CalculateImpulsivenessIndex(engine, now, 24),
       chase_selloff_index |-> CalculateChaseSelloffIndex(engine),
       consecutive_losses |-> DetectConsecutiveLosses(engine),
       avg_interval_total |->
         IF Len(engine.operation_timestamps) >= 2 THEN SumOfSeq(intervals)
         ELSE 0,
       avg_interval_count |->
         IF Len(engine.operation_timestamps) >= 2 THEN Len(intervals) ELSE 1,
       total_operations |-> Len(engine.operation_timestamps)]

\* ------------------------------------------------------------ behavior calls
\* The records kept before the calls: signals, trades and extremes together.
MaxRecorded == 3

SignalTimes == {0, 60, 1860, 3600, 7200}

BehaviorTrades ==
  [timestamp : {900, 1800}, side : {"BUY", "SELL"}, price : {97, 98, 103}]

ExtremeTimes == {0, 3600, 9000}
ExtremePrices == {100}

\* the wall-clock times of the calls, and the window_hours given
ClockTimes == {7200, 87400, 100000}
WindowHours == {1, 24}

Recorded ==
  Len(behavior_engine.operation_timestamps) + Len(behavior_engine.trades)
    + Len(behavior_engine.local_extremes)

\* a fresh BehaviorEngine; args keeps the is_high given for each item of
\* local_extremes, which the engine does not keep
InitBehavior ==
  /\ EngineFields(InitialCapital * MoneyScale)
  /\ args = [op |-> "record_local_extreme", is_high |-> <<>>]
  /\ out = NoCall
  /\ microstructure_engine = NewMicrostructureEngine
  /\ behavior_engine = NewBehaviorEngine
  /\ clock = 7200

\* time passes
Tick ==
  /\ \E now \in ClockTimes : now > clock /\ clock' = now
  /\ UNCHANGED <<backtest_vars, args, out, microstructure_engine,
                 behavior_engine>>

\* record_signal(signal, current_price): the model keeps the timestamps
RecordSignal ==
  /\ Recorded < MaxRecorded
  /\ \E timestamp \in SignalTimes :
       behavior_engine' =
         [behavior_engine EXCEPT
            !.operation_timestamps = Append(@, timestamp)]
  /\ out' = NoCall
  /\ UNCHANGED <<backtest_vars, args, microstructure_engine, clock>>

\* BehaviorEngine.record_trade(trade)
BehaviorRecordTrade ==
  /\ Recorded < MaxRecorded
  /\ \E trade \in BehaviorTrades :
       behavior_engine' = [behavior_engine EXCEPT !.trades = Append(@, trade)]
  /\ out' = NoCall
  /\ UNCHANGED <<backtest_vars, args, microstructure_engine, clock>>

\* record_local_extreme(timestamp, price, is_high): self.local_extremes is a
\* dict, kept as the list of its items in insertion order; is_high is not
\* stored
RecordLocalExtreme ==
  /\ Recorded < MaxRecorded
  /\ \E timestamp \in ExtremeTimes, price \in ExtremePrices,
        is_high \in BOOLEAN :
       LET items == behavior_engine.local_extremes
           item == [timestamp |-> timestamp, price |-> price]
           known == \E i \in 1..Len(items) : items[i].timestamp = timestamp
       IN  /\ behavior_engine' =
                [behavior_engine EXCEPT !.local_extremes =
                   IF known
                   THEN [i \in 1..Len(items) |->
                           IF items[i].timestamp = timestamp THEN item
                           ELSE items[i]]
                   ELSE Append(items, item)]
           /\ args' =
                [args EXCEPT !.is_high =
                   IF known
                   THEN [i \in 1..Len(items) |->
                           IF items[i].timestamp = timestamp THEN is_high
                           ELSE args.is_high[i]]
                   ELSE Append(args.is_high, is_high)]
  /\ out' = NoCall
  /\ UNCHANGED <<backtest_vars, microstructure_engine, clock>>

\* calculate_impulsiveness_index(window_hours), called at the time clock
CallCalculateImpulsivenessIndex ==
  /\ \E window_hours \in WindowHours :
       out' = [op |-> "calculate_impulsiveness_index",
               window_hours |-> window_hours, now |-> clock,
               value |-> CalculateImpulsivenessIndex(behavior_engine, clock,
                                                     window_hours)]
  /\ UNCHANGED <<backtest_vars, args, microstructure_engine, behavior_engine,
                 clock>>

\* calculate_chase_selloff_index()
CallCalculateChaseSelloffIndex ==
  /\ out' = [op |-> "calculate_chase_selloff_index", now |-> clock,
             value |-> CalculateChaseSelloffIndex(behavior_engine)]
  /\ UNCHANGED <<backtest_vars, args, microstructure_engine, behavior_engine,
                 clock>>

\* get_metrics(), called at the time clock
CallGetMetrics ==
  /\ out' = [op |-> "get_metrics", now |-> clock,
             value |-> GetMetrics(behavior_engine, clock)]
  /\ UNCHANGED <<backtest_vars, args, microstructure_engine, behavior_engine,
                 clock>>

NextBehavior ==
  \/ Tick
  \/ RecordSignal
  \/ BehaviorRecordTrade
  \/ RecordLocalExtreme
  \/ CallCalculateImpulsivenessIndex
  \/ CallCalculateChaseSelloffIndex
  \/ CallGetMetrics

SpecBehavior == InitBehavior /\ [][NextBehavior]_vars

\* ------------------------------------------------------------ analyzer sessions
\* One BehaviorEngine and one MicrostructureEngine used over a session of
\* records and resets.  args keeps, for each, an instance constructed at the
\* engine's last reset and given every record made since.
MaxSessionTrades == 7
MaxSessionSignals == 2

SessionSignalTimes == {0, 60}

SessionTrades ==
  {[timestamp |-> 900, side |-> "BUY", price |-> 98],
   [timestamp |-> 1800, side |-> "SELL", price |-> 103]}

SessionExtremes == {[timestamp |-> 0, price |-> 100]}

SessionMicroTrades == {[quantity |-> 1, price |-> 50]}

\* record_signal(signal, current_price) on an instance
RecordedSignal(engine, timestamp) ==
  [engine EXCEPT !.operation_timestamps = Append(@, timestamp)]

\* BehaviorEngine.record_trade(trade) on an instance
RecordedTrade(engine, trade) ==
  [engine EXCEPT !.trades = Append(@, trade)]

\* record_local_extreme(timestamp, price, is_high) on an instance
RecordedExtreme(engine, item) ==
  LET items == engine.local_extremes
      known == \E i \in 1..Len(items) : items[i].timestamp = item.timestamp
  IN  [engine EXCEPT !.local_extremes =
         IF known
         THEN [i \in 1..Len(items) |->
                 IF items[i].timestamp = item.timestamp THEN item
                 ELSE items[i]]
         ELSE Append(items, item)]

\* a reset that leaves the local extremes in place
ResetKeepingExtremes(engine) ==
  [engine EXCEPT !.trades = <<>>, !.operation_timestamps = <<>>]

\* BehaviorEngine.reset()
BehaviorEngineReset(engine) ==
  [engine EXCEPT !.trades = <<>>, !.operation_timestamps = <<>>,
                 !.local_extremes = <<>>]

\* MicrostructureEngine.reset()
MicrostructureEngineReset(engine) ==
  [engine EXCEPT !.trades = <<>>]

InitSession ==
  /\ EngineFields(InitialCapital * MoneyScale)
  /\ args = [op |-> "session", behavior_engine |-> NewBehaviorEngine,
             microstructure_engine |-> NewMicrostructureEngine]
  /\ out = NoCall
  /\ microstructure_engine = NewMicrostructureEngine
  /\ behavior_engine = NewBehaviorEngine
  /\ clock = 7200

SessionRecordSignal ==
  /\ Len(behavior_engine.operation_timestamps) < MaxSessionSignals
  /\ \E timestamp \in SessionSignalTimes :
       /\ behavior_engine' = RecordedSignal(behavior_engine, timestamp)
       /\ args' = [args EXCEPT !.behavior_engine = RecordedSignal(@, timestamp)]
  /\ out' = NoCall
  /\ UNCHANGED <<backtest_vars, microstructure_engine, clock>>

SessionRecordTrade ==
  /\ Len(behavior_engine.trades) < MaxSessionTrades
  /\ \E trade \in SessionTrades :
       /\ behavior_engine' = RecordedTrade(behavior_engine, trade)
       /\ args' = [args EXCEPT !.behavior_engine = RecordedTrade(@, trade)]
  /\ out' = NoCall
  /\ UNCHANGED <<backtest_vars, microstructure_engine, clock>>

SessionRecordLocalExtreme ==
  /\ \E item \in SessionExtremes :
       /\ behavior_engine' = RecordedExtreme(behavior_engine, item)
       /\ args' = [args EXCEPT !.behavior_engine = RecordedExtreme(@, item)]
  /\ out' = NoCall
  /\ UNCHANGED <<backtest_vars, microstructure_engine, clock>>

SessionMicroRecordTrade ==
  /\ Len(microstructure_engine.trades) < MaxMicroTrades
  /\ \E trade \in SessionMicroTrades :
       /\ microstructure_engine' = RecordTrade(microstructure_engine, trade)
       /\ args' = [args EXCEPT !.microstructure_engine = RecordTrade(@, trade)]
  /\ out' = NoCall
  /\ UNCHANGED <<backtest_vars, behavior_engine, clock>>

\* BehaviorEngine.reset(); out keeps how much had been recorded
BehaviorReset ==
  /\ behavior_engine' = BehaviorEngineReset(behavior_engine)
  /\ args' = [args EXCEPT !.behavior_engine = NewBehaviorEngine]
  /\ out' = [op |-> "BehaviorEngine.reset", recorded |-> Recorded]
  /\ UNCHANGED <<backtest_vars, microstructure_engine, clock>>

\* MicrostructureEngine.reset()
MicroReset ==
  /\ microstructure_engine' = MicrostructureEngineReset(microstructure_engine)
  /\ args' = [args EXCEPT !.microstructure_engine = NewMicrostructureEngine]
  /\ out' = [op |-> "MicrostructureEngine.reset",
             recorded |-> Len(microstructure_engine.trades)]
  /\ UNCHANGED <<backtest_vars, behavior_engine, clock>>

\* the index arguments given to evaluate_regime during a session
SessionChaosIndices == {0, IndexScale - 1}
SessionWhaleIndices == {0}
SessionLeverageIndices == {0, 17}

\* the BehaviorMetrics get_metrics() returned as evaluate_regime reads them;
\* the impulsiveness index in steps of 1 / IndexScale (exact for 0.0 and 1.0,
\* the values the records of a session give)
MetricsArgument(metrics) ==
  [supplied |-> TRUE,
   impulsiveness_index |->
     (metrics.impulsiveness_index.num * IndexScale)
       \div metrics.impulsiveness_index.den,
   consecutive_losses |-> metrics.consecutive_losses]

\* MetaEngine().evaluate_regime(chaos_index, whale_activity_index,
\* leverage_risk_index, behavior_engine.get_metrics())
SessionEvaluateRegime ==
  /\ \E chaos_index \in SessionChaosIndices,
        whale_activity_index \in SessionWhaleIndices,
        leverage_risk_index \in SessionLeverageIndices :
       out' = EvaluateRegime(chaos_index, whale_activity_index,
                             leverage_risk_index,
                             MetricsArgument(GetMetrics(behavior_engine,
                                                        clock)))
  /\ UNCHANGED <<backtest_vars, args, microstructure_engine, behavior_engine,
                 clock>>

NextSession ==
  \/ SessionRecordSignal
  \/ SessionRecordTrade
  \/ SessionRecordLocalExtreme
  \/ SessionMicroRecordTrade
  \/ BehaviorReset
  \/ MicroReset
  \/ CallGetMetrics
  \/ SessionEvaluateRegime

SpecSession == InitSession /\ [][NextSession]_vars

\* ============================================================ properties
\* What a step of _execute_signal was given and what it returned
Executed(l) == l.op = "execute"

Accepted(l, side) == Executed(l) /\ l.trade # NoTrade /\ l.signal.side = side

\* quantity * fill_price + fee of a Trade, at the scale of cash
TradeCost(t) == TradeValue(t.quantity, t.price) + t.fee

\* C1: every BUY that _execute_signal accepts was affordable (cash >=
\* quantity * fill_price + fee before it), takes exactly that amount from cash,
\* and leaves cash >= 0.
C1_AcceptedBuyKeepsCashNonNegative ==
  [][Accepted(last', "BUY")
       => /\ cash >= TradeCost(last'.trade)
          /\ cash' = cash - TradeCost(last'.trade)
          /\ cash' >= 0]_vars

\* a second BUY accepted with less cash left than the first one cost
C1_Witness ==
  /\ Accepted(last, "BUY")
  /\ Len(trades) = 2
  /\ trades[1].side = "BUY"
  /\ cash < TradeCost(trades[2])

\* C2: position.quantity >= 0 for every symbol in every state; a SELL with no
\* held quantity is rejected, and an accepted SELL takes exactly
\* min(requested, held) from the position.
C2_SellRule ==
  (Executed(last') /\ last'.signal.side = "SELL")
    => LET held == GetPosition(positions, last'.signal.symbol).quantity
           left == GetPosition(positions', last'.signal.symbol).quantity
       IN  /\ (held <= 0) => (last'.trade = NoTrade /\ left = held)
           /\ (last'.trade # NoTrade)
                => (left = held - Min(last'.quantity, held))

\* C2: position.quantity >= 0 for every symbol, initially and after every
\* step, and every SELL follows the rule above.
C2_PositionNeverNegative ==
  /\ \A s \in Symbols : GetPosition(positions, s).quantity >= 0
  /\ [][(\A s \in Symbols : GetPosition(positions', s).quantity >= 0)
          /\ C2_SellRule]_vars

\* a SELL accepted for more than was held: it closes the position at 0
C2_Witness ==
  /\ Accepted(last, "SELL")
  /\ Len(trades) = 2
  /\ trades[1].side = "BUY"
  /\ last.quantity > trades[1].quantity
  /\ positions[last.signal.symbol].quantity = 0

\* The quantity of symbol s held after the first k trades of the log: a BUY
\* adds its quantity, a SELL takes min(its quantity, held)
RECURSIVE HeldAfter(_, _, _)
HeldAfter(tr, s, k) ==
  IF k = 0 THEN 0
  ELSE LET held == HeldAfter(tr, s, k - 1)
       IN  IF tr[k].symbol # s THEN held
           ELSE IF tr[k].side = "BUY" THEN held + tr[k].quantity
           ELSE held - Min(tr[k].quantity, held)

\* the trades of symbol s since its position was last flat (quantity 0)
SinceFlat(tr, s) ==
  LET flat == {k \in 0..Len(tr) : HeldAfter(tr, s, k) = 0}
      k0 == CHOOSE k \in flat : \A j \in flat : j <= k
  IN  {i \in (k0 + 1)..Len(tr) : tr[i].symbol = s}

BuysSinceFlat(tr, s) == {i \in SinceFlat(tr, s) : tr[i].side = "BUY"}

RECURSIVE SumQuantity(_, _)
SumQuantity(tr, S) ==
  IF S = {} THEN 0
  ELSE LET i == CHOOSE x \in S : TRUE
       IN  tr[i].quantity + SumQuantity(tr, S \ {i})

\* sum of quantity * fill price, the fill price at the scale of avg_price
RECURSIVE SumQuantityFill(_, _)
SumQuantityFill(tr, S) ==
  IF S = {} THEN 0
  ELSE LET i == CHOOSE x \in S : TRUE
       IN  tr[i].quantity * tr[i].price * PrecScale
             + SumQuantityFill(tr, S \ {i})

\* avg_price of symbol s is the quantity-weighted mean of the fill prices of
\* the BUYs B, fees left out, up to the rounding of the Decimal divisions
\* (half a unit of the last place for each division, one per BUY after the
\* first)
IsWeightedMean(s, B) ==
  LET total == SumQuantity(trades, B)
  IN  2 * Abs(GetPosition(positions, s).avg_price * total
                - SumQuantityFill(trades, B))
        <= (Cardinality(B) - 1) * total

\* C3, as stated: after accepted BUYs with no full close among them (partial
\* closes allowed), avg_price is the quantity-weighted mean of the fill prices
\* of those BUYs.
C3_AvgPriceNoFullClose ==
  \A s \in Symbols :
    BuysSinceFlat(trades, s) # {} => IsWeightedMean(s, BuysSinceFlat(trades, s))

\* C3, amended: after accepted BUYs with no SELL among them, neither a full
\* nor a partial close, avg_price is the quantity-weighted mean of the fill
\* prices of those BUYs (up to Decimal rounding); fees are not in it.
C3_AvgPriceNoClose ==
  \A s \in Symbols :
    (SinceFlat(trades, s) # {}
       /\ SinceFlat(trades, s) = BuysSinceFlat(trades, s))
      => IsWeightedMean(s, BuysSinceFlat(trades, s))

\* two BUYs at different fill prices added to one position, no SELL between
C3_Witness ==
  /\ Accepted(last, "BUY")
  /\ Len(trades) >= 2
  /\ LET n == Len(trades)
     IN  /\ trades[n - 1].side = "BUY"
         /\ trades[n - 1].price # trades[n].price
         /\ positions[last.signal.symbol].quantity
              = trades[n - 1].quantity + trades[n].quantity

\* the rejection conditions of _execute_signal for the step's signal
ShouldReject ==
  LET side == last'.signal.side
      quantity == last'.quantity
      execution_price == ApplySlippage(last'.price, side)
      held == GetPosition(positions, last'.signal.symbol).quantity
  IN  \/ quantity <= 0
      \/ side = "BUY"
           /\ cash < TradeValue(quantity, execution_price)
                       + CalculateFee(quantity, execution_price)
      \/ side = "SELL" /\ held <= 0

\* C4: _execute_signal returns no Trade exactly when the BUY is not affordable,
\* the SELL has nothing held, or the computed quantity is <= 0; it then leaves
\* cash, the positions and their key set, realized_pnl, equity and both trade
\* logs as they were.
C4_SoftFailureChangesNothing ==
  [][Executed(last')
       => /\ ShouldReject <=> (last'.trade = NoTrade)
          /\ (last'.trade = NoTrade) => UNCHANGED ledger_vars]_vars

\* a BUY of a positive quantity rejected for lack of cash, after a trade
C4_Witness ==
  /\ Executed(last)
  /\ last.trade = NoTrade
  /\ last.signal.side = "BUY"
  /\ last.quantity > 0
  /\ Len(trades) >= 1

\* the ticks nearest to n/d (d > 0): both neighbours when n/d is halfway
NearestTicks(n, d) ==
  LET f == FloorDiv(n, d)
      r == n - f * d
  IN  IF 2 * r < d THEN {f} ELSE IF 2 * r > d THEN {f + 1} ELSE {f, f + 1}

\* the quantity the rule gives signal, in ticks: a present quantity <= 1 is a
\* fraction of equity, one > 1 a count of units, an absent one 1% of equity
RuleQuantity(signal, eq, execution_price) ==
  IF signal.has_quantity
  THEN IF signal.quantity <= RateDen
       THEN NearestTicks(eq * signal.quantity,
                         RateDen * RateDen * execution_price)
       ELSE NearestTicks(signal.quantity * QtyScale, RateDen)
  ELSE NearestTicks(eq * DefaultPctNum,
                    DefaultPctDen * RateDen * execution_price)

\* C10: the quantity _execute_signal computes is the rule's quantity for the
\* signal (fraction of equity, unit count, or the 1% default) rounded to a
\* tick, and a signal whose rule quantity is <= 0, such as one with quantity 0
\* or a negative one, gives no Trade.
C10_QuantityRule ==
  [][Executed(last')
       => LET rule == RuleQuantity(last'.signal, equity,
                                   ApplySlippage(last'.price,
                                                 last'.signal.side))
          IN  /\ last'.quantity \in rule
              /\ (\A q \in rule : q <= 0) => (last'.trade = NoTrade)]_vars

\* the timestamps of the candles are strictly increasing
StrictlyIncreasing(cs) ==
  \A i \in 1..(Len(cs) - 1) : cs[i].timestamp < cs[i + 1].timestamp

\* run is over: it returned or raised
RunEnded == runs >= 1 /\ run_state \in {"returned", "raised"}

\* C5: run, given a single MA_CROSSOVER or MA_CLUSTER_DENSITY config and a
\* non-empty list of candles with strictly increasing timestamps and positive
\* closes, ends by returning a StrategyResult, never by raising.
C5_RunReturns ==
  (/\ RunEnded
   /\ Len(configs) = 1
   /\ configs[1].strategy_type \in {"ma_crossover", "ma_cluster_density"}
   /\ candles # <<>>
   /\ StrictlyIncreasing(candles))
    => (run_state = "returned" /\ error = "" /\ result.returned)

\* C6: when the loop of scenario A is over, the strategy has emitted a BUY
\* signal, the engine has made a BUY trade, and equity is above the initial
\* capital of 100000.
C6_ScenarioABuysAndGains ==
  bar_index = ScenarioBars
    => /\ \E i \in 1..Len(strategy.signals) : strategy.signals[i].side = "BUY"
       /\ \E i \in 1..Len(trades) : trades[i].side = "BUY"
       /\ equity > ScenarioCapital * MoneyScale

\* C7: a second run on the same configs and candles ends with the equity
\* curve, the trade list (every field of every Trade) and the outcome (result
\* and metrics, or error) of the first.
C7_ReplayIsIdentical ==
  (/\ runs >= 2
   /\ RunEnded
   /\ configs = prev.configs
   /\ candles = prev.candles)
    => /\ equity_curve = prev.equity_curve
       /\ trades = prev.trades
       /\ result = prev.result
       /\ error = prev.error

\* run refuses this input: no config, no candle, or a first config whose type
\* has no strategy class
RefusedInput(strategy_configs, cs) ==
  \/ strategy_configs = <<>>
  \/ cs = <<>>
  \/ strategy_configs[1].strategy_type
       \notin {"ma_crossover", "ma_cluster_density"}

\* C8: a call of run with no config, no candle or a first config of a type
\* without implementation raises ValueError and returns no result; it adds no
\* equity point and no trade, and no candle is processed after it.
C8_HardFailures ==
  [][((last'.op = "run" /\ RefusedInput(configs', candles'))
        => (/\ run_state' = "raised"
            /\ error' = "ValueError"
            /\ result' = NoResult
            /\ equity_curve' \in {equity_curve, <<>>}
            /\ trades' \in {trades, <<>>}))
      /\ ((run_state = "raised") => (last'.op \notin {"bar", "finish"}))]_vars

\* a second run, refused for its CUSTOM config, after a run that traded
C8_Witness ==
  /\ runs = 2
  /\ last.op = "run"
  /\ run_state = "raised"
  /\ error = "ValueError"
  /\ configs # <<>>
  /\ configs[1].strategy_type = "custom"
  /\ prev.trades # <<>>
  /\ trades = <<>>

\* C9: run, given candles whose timestamps are not strictly increasing, raises
\* an invalid-input error before it processes any candle.
C9_UnorderedCandlesRefused ==
  (runs >= 1 /\ ~StrictlyIncreasing(candles))
    => (last.op = "run" /\ run_state = "raised" /\ error = "ValueError")

\* the running maximum of equity over the first k points of the curve,
\* starting from the initial capital
RunningPeak(curve, k, capital) ==
  MaxOfSeq(<<capital>> \o [i \in 1..k |-> curve[i].equity])

\* C11: every EquityPoint of the curve has drawdown (peak - equity) / peak for
\* the running peak up to and including its own bar (starting from
\* initial_capital), hence a drawdown from 0 to 1, never negative.
C11_DrawdownWithinUnitRange ==
  \A k \in 1..Len(equity_curve) :
    LET point == equity_curve[k]
        peak == RunningPeak(equity_curve, k, initial_capital)
    IN  /\ point.drawdown.num * peak
             = (peak - point.equity) * point.drawdown.den
        /\ 0 <= point.drawdown.num
        /\ point.drawdown.num <= point.drawdown.den

\* what one turn of the loop does, for the candle it takes
C12_BarStep ==
  LET candle == candles[bar_index + 1]
      point == equity_curve'[Len(equity_curve')]
  IN  /\ bar_index' = bar_index + 1
      /\ strategy'.bars = Append(strategy.bars, candle.close)
      /\ \/ trades' = trades /\ last'.trade = NoTrade
         \/ /\ last'.signal # NoSignal
            /\ last'.trade # NoTrade
            /\ trades' = Append(trades, last'.trade)
      /\ equity' = MarkEquity(cash', positions',
                              [s \in Symbols |-> candle.close])
      /\ Len(equity_curve') = bar_index'
      /\ SubSeq(equity_curve', 1, Len(equity_curve)) = equity_curve
      /\ point.timestamp = candle.timestamp
      /\ point.equity = equity'

\* C12: run takes the candles in input order and on each calls on_bar once,
\* executes at most one signal, marks the portfolio at the close and appends one
\* EquityPoint with the candle's timestamp and the equity after that bar's
\* trade; the trade log grows by at most one Trade per bar and is otherwise
\* left alone, and at the end there is one point per candle.
C12_PerBarOrder ==
  [][((last'.op = "bar") => C12_BarStep)
      /\ ((last'.op = "finish")
            => (/\ Len(equity_curve') = Len(candles)
                /\ equity_curve' = equity_curve
                /\ trades' = trades))]_vars

\* a bar whose signal was executed, with the trade's cost in its point
C12_Witness ==
  /\ last.op = "bar"
  /\ last.trade # NoTrade
  /\ Len(equity_curve) >= 2
  /\ equity_curve[Len(equity_curve)].equity
       # equity_curve[Len(equity_curve) - 1].equity
  /\ trades[Len(trades)] = last.trade

\* every stored position of quantity 0 has avg_price 0
FlatMeansNoBasis(pos) ==
  \A s \in PositionKeys(pos) : pos[s].quantity = 0 => pos[s].avg_price = 0

\* C13: a position whose quantity is 0 has avg_price 0, in the initial ledger
\* and after every step; an accepted BUY into a flat position sets avg_price
\* to the fill price of that BUY.
C13_FlatPositionHasNoBasis ==
  /\ FlatMeansNoBasis(positions)
  /\ [][FlatMeansNoBasis(positions')
          /\ ((Accepted(last', "BUY")
                 /\ GetPosition(positions, last'.signal.symbol).quantity = 0)
                => (positions'[last'.signal.symbol]
                      = [quantity |-> last'.trade.quantity,
                         avg_price |-> last'.trade.price * PrecScale]))]_vars

\* a BUY accepted into a position that a SELL had closed completely, at
\* another fill price than the closed position's basis
C13_Witness ==
  /\ Accepted(last, "BUY")
  /\ Len(trades) = 3
  /\ trades[1].side = "BUY"
  /\ trades[2].side = "SELL"
  /\ trades[2].quantity >= trades[1].quantity
  /\ trades[3].price # trades[1].price
  /\ positions[last.signal.symbol].quantity = trades[3].quantity

\* point k of the curve is below the running peak
BelowPeak(curve, k, capital) ==
  curve[k].equity < RunningPeak(curve, k, capital)

\* the length of the longest run of consecutive points below the running peak
LongestBelowPeak(curve, capital) ==
  LET runs_below ==
        {j - i + 1 : i \in 1..Len(curve), j \in 1..Len(curve)}
          \cap {n \in 1..Len(curve) :
                  \E i \in 1..(Len(curve) - n + 1) :
                    \A k \in i..(i + n - 1) : BelowPeak(curve, k, capital)}
  IN  IF runs_below = {} THEN 0
      ELSE CHOOSE n \in runs_below : \A m \in runs_below : m <= n

\* C14: the metrics run returns have max_drawdown_duration equal to the
\* longest run of consecutive equity points below the running peak (from
\* initial_capital); a curve never below its peak has duration 0 and
\* max_drawdown 0.
C14_DrawdownDuration ==
  result.returned
    => /\ result.metrics.max_drawdown_duration
            = LongestBelowPeak(equity_curve, initial_capital)
       /\ (LongestBelowPeak(equity_curve, initial_capital) = 0)
            => (result.metrics.max_drawdown.num = 0)

\* the simple mean of the last window closes ending at bar k, as the pair
\* <<sum, count>>; before the window is full, the mean of the closes there are
TrueMean(bars, window, k) ==
  LET m == Min(window, k)
  IN  <<SumCloses(bars, k - m + 1, k), m>>

MeanLess(a, b) == a[1] * b[2] < b[1] * a[2]

MeanLessOrEqual(a, b) == a[1] * b[2] <= b[1] * a[2]

\* C15: MACrossoverStrategy.on_bar returns no signal on the first
\* long_window - 1 bars; it returns BUY only if the short mean was <= the long
\* mean on the previous bar and is > it on the current bar, SELL only if it was
\* >= on the previous bar and is < on the current bar, the means being the true
\* simple means of the closes.
C15_SignalsOnlyOnTrueCross ==
  [][(last'.op = "bar" /\ strategy.kind = "ma_crossover")
       => LET bars == strategy'.bars
              n == Len(bars)
              short(k) == TrueMean(bars, strategy.short_window, k)
              long(k) == TrueMean(bars, strategy.long_window, k)
          IN  /\ (n < strategy.long_window) => (last'.signal = NoSignal)
              /\ (last'.signal.side = "BUY")
                   => (/\ n >= 2
                       /\ MeanLessOrEqual(short(n - 1), long(n - 1))
                       /\ MeanLess(long(n), short(n)))
              /\ (last'.signal.side = "SELL")
                   => (/\ n >= 2
                       /\ MeanLessOrEqual(long(n - 1), short(n - 1))
                       /\ MeanLess(short(n), long(n)))]_vars

\* on_bar reversed the strategy's position on this bar: it held one side before
\* and holds the other after
Flip ==
  /\ last'.op = "bar"
  /\ strategy.current_position # "None"
  /\ strategy'.current_position = OppositeSide(strategy.current_position)

\* C16: on a bar where a strategy flips its position, the signal that closes
\* the old position is the one on_bar returns to the engine (and run executes)
\* on that bar, ahead of the opening signal: it is the first signal the
\* strategy recorded on the bar, it carries no quantity, and it is not dropped.
C16_FlipDeliversClosingSignal ==
  [][Flip
       => (/\ Len(strategy'.signals) > Len(strategy.signals)
           /\ last'.signal = strategy'.signals[Len(strategy.signals) + 1]
           /\ ~last'.signal.has_quantity)]_vars

\* C17: while run processes the candles, no BUY trade is executed on a bar at
\* whose start the ledger holds a non-zero quantity of the symbol (no
\* pyramiding).
C17_NoBuyWhileHolding ==
  [][(last'.op = "bar" /\ last'.trade # NoTrade /\ last'.trade.side = "BUY")
       => (GetPosition(positions, last'.trade.symbol).quantity = 0)]_vars

\* the MA spread (max - min) / mean of the bars, every MA being the mean of the
\* last closes of its period, exceeds num / den
SpreadExceeds(bars, num, den) ==
  LET n == Len(bars)
      mas == [i \in 1..Len(MaPeriods) |->
                SumCloses(bars, n - MaPeriods[i] + 1, n)
                  * (PeriodProduct \div MaPeriods[i])]
  IN  (MaxOfSeq(mas) - MinOfSeq(mas)) * Len(mas) * den > num * SumOfSeq(mas)

\* the strategy holds a position and the bar it is given is a diverged one
DivergedWhileOpen ==
  /\ last'.op = "bar"
  /\ strategy.kind = "ma_cluster_density"
  /\ strategy.current_position # "None"
  /\ Len(strategy'.bars) >= MaxOfSeq(MaPeriods)
  /\ SpreadExceeds(strategy'.bars,
                   DensityThresholdNum * strategy.breakout_multiplier,
                   RateDen * RateDen)

\* C18: whenever MAClusterDensityStrategy has an open position and the MA
\* spread of the bar exceeds density_threshold * breakout_multiplier, on_bar
\* returns an exit signal of the opposite side on that bar and the strategy is
\* flat afterwards, however the spread got there.
C18_ExitOnDivergedBar ==
  [][DivergedWhileOpen
       => (/\ last'.signal.side = OppositeSide(strategy.current_position)
           /\ strategy'.current_position = "None")]_vars

\* the MAs of the bars are clustered: there are bars for every period and the
\* spread is at most density_threshold
Clustered(bars) ==
  /\ Len(bars) >= MaxOfSeq(MaPeriods)
  /\ ~SpreadExceeds(bars, DensityThresholdNum, RateDen)

\* C19: on a bar MAClusterDensityStrategy is given while cluster_formed is
\* true and on which the MAs are still clustered, on_bar returns no entry
\* signal (a signal with a quantity); and after every bar on which the MAs are
\* not clustered cluster_formed is false.
C19_StickyFlag ==
  [][(last'.op = "bar" /\ strategy.kind = "ma_cluster_density")
       => ((((strategy.cluster_formed /\ Clustered(strategy'.bars))
               => ~last'.signal.has_quantity))
           /\ ((~Clustered(strategy'.bars))
                 => ~strategy'.cluster_formed))]_vars

\* a bar after the entry on which the MAs are still clustered and the close is
\* again a breakout, answered with no signal
C19_Witness ==
  /\ last.op = "bar"
  /\ strategy.kind = "ma_cluster_density"
  /\ strategy.cluster_formed
  /\ Clustered(strategy.bars)
  /\ Clustered(SubSeq(strategy.bars, 1, Len(strategy.bars) - 1))
  /\ Len(strategy.signals) = 1
  /\ last.signal = NoSignal
  /\ SuggestedSide(CalculateMaValues(strategy.bars), last.price,
                   strategy.breakout_multiplier) # "None"

\* a strategy freshly constructed from the config and fed the bars from the
\* i-th on: its state afterwards and the signal its last on_bar returned
RECURSIVE FreshRun(_, _, _)
FreshRun(st, bars, i) ==
  IF i > Len(bars) THEN [strategy |-> st, signal |-> NoSignal]
  ELSE LET r == OnBar(st, bars[i])
       IN  IF i = Len(bars) THEN r ELSE FreshRun(r.strategy, bars, i + 1)

\* C20: whatever was fed before the last reset, the strategy is in the state
\* of a freshly constructed strategy with the same config that was fed the
\* bars fed since that reset, and each on_bar returns the signal the fresh
\* strategy returns: the result depends on the config and those bars only.
C20_ResetIsFresh ==
  LET fresh == FreshRun(NewStrategy(configs[1]), candles, 1)
  IN  /\ strategy = fresh.strategy
      /\ (last.op = "on_bar") => (last.signal = fresh.signal)

\* a signal returned after a reset before which the strategy had taken a
\* position
C20_Witness ==
  /\ last.op = "on_bar"
  /\ last.signal # NoSignal
  /\ ops >= 1
  /\ prev.current_position # "None"
  /\ prev.signals # <<>>

\* C21: classify_regime returns TREND iff chaos_index < 0.3, CHAOTIC iff
\* chaos_index > 0.7 and NEUTRAL otherwise (0.3 and 0.7 themselves are
\* NEUTRAL), whatever volatility and noise_to_signal it is given.
C21_RegimeBreakpoints ==
  (out.op = "classify_regime")
    => /\ (out.regime = "TREND") <=> (10 * args.chaos_index < 3 * IndexScale)
       /\ (out.regime = "CHAOTIC") <=> (10 * args.chaos_index > 7 * IndexScale)
       /\ (out.regime = "NEUTRAL")
            <=> (/\ 3 * IndexScale <= 10 * args.chaos_index
                 /\ 10 * args.chaos_index <= 7 * IndexScale)

\* classify_regime(0.7, volatility, noise_to_signal) returned NEUTRAL
C21_Witness ==
  /\ out.op = "classify_regime"
  /\ 10 * args.chaos_index = 7 * IndexScale
  /\ args.volatility.given
  /\ args.noise_to_signal.given
  /\ out.regime = "NEUTRAL"

\* evaluate_regime returned a RegimeInfo
Evaluated == out.op = "evaluate_regime" /\ out.error = ""

\* base 1.0 / 0.7 / 0.3 for TREND / NEUTRAL / CHAOTIC, over 10, from the
\* chaos_index
BaseOf(chaos_index) ==
  IF 10 * chaos_index < 3 * IndexScale THEN 10
  ELSE IF 10 * chaos_index > 7 * IndexScale THEN 3
  ELSE 7

\* numerator and denominator of base * (1 - 0.3*leverage_risk) * (1 -
\* 0.2*whale_activity) [* (1 - 0.2*impulsiveness), * 0.5 if
\* consecutive_losses >= 3], for the arguments a
ProductNum(a) ==
  BaseOf(a.chaos_index)
    * (10 * IndexScale - 3 * a.leverage_risk_index)
    * (10 * IndexScale - 2 * a.whale_activity_index)
    * (IF a.behavior_metrics.supplied
       THEN 10 * IndexScale - 2 * a.behavior_metrics.impulsiveness_index
       ELSE 1)

ProductDen(a) ==
  10 * (10 * IndexScale) * (10 * IndexScale)
    * (IF a.behavior_metrics.supplied
       THEN (10 * IndexScale)
              * (IF a.behavior_metrics.consecutive_losses >= 3
                 THEN 2 ELSE 1)
       ELSE 1)

\* C22: the position_multiplier evaluate_regime returns is the product of the
\* base multiplier and the penalties, clamped to [0, 1]; it lies in [0, 1].
C22_PositionMultiplier ==
  Evaluated
    => LET m == out.position_multiplier
           num == ProductNum(args)
           den == ProductDen(args)
       IN  /\ 0 <= m.num
           /\ m.num <= m.den
           /\ (num < 0) => (m.num = 0)
           /\ (num > den) => (m.num = m.den)
           /\ (0 <= num /\ num <= den) => (m.num = num /\ m.den = den)

\* a NEUTRAL regime with leverage risk, whale activity, impulsiveness and
\* three consecutive losses: every factor of the product acts
C22_Witness ==
  /\ Evaluated
  /\ out.regime = "NEUTRAL"
  /\ args.leverage_risk_index > 0
  /\ args.whale_activity_index > 0
  /\ args.behavior_metrics.supplied
  /\ args.behavior_metrics.impulsiveness_index > 0
  /\ args.behavior_metrics.consecutive_losses = 3
  /\ 0 < out.position_multiplier.num
  /\ out.position_multiplier.num < out.position_multiplier.den

\* C23: evaluate_regime returns allow_new_trades = false exactly when
\* (chaos_index > 0.9 and leverage_risk_index > 0.8) or (the regime is CHAOTIC
\* and leverage_risk_index > 0.7) or (behavior metrics are supplied and
\* consecutive_losses >= 5); chaos_index 0.95 with leverage_risk_index 0.85
\* gives false whatever the other arguments.
C23_AllowNewTrades ==
  Evaluated
    => /\ (~out.allow_new_trades)
            <=> (\/ /\ 10 * args.chaos_index > 9 * IndexScale
                    /\ 10 * args.leverage_risk_index > 8 * IndexScale
                 \/ /\ 10 * args.chaos_index > 7 * IndexScale
                    /\ 10 * args.leverage_risk_index > 7 * IndexScale
                 \/ /\ args.behavior_metrics.supplied
                    /\ args.behavior_metrics.consecutive_losses >= 5)
       /\ (/\ 100 * args.chaos_index = 95 * IndexScale
           /\ 100 * args.leverage_risk_index = 85 * IndexScale)
            => ~out.allow_new_trades

\* scenario D: chaos_index 0.95, leverage_risk_index 0.85, no behavior metrics
C23_Witness ==
  /\ Evaluated
  /\ 100 * args.chaos_index = 95 * IndexScale
  /\ 100 * args.leverage_risk_index = 85 * IndexScale
  /\ ~args.behavior_metrics.supplied
  /\ ~out.allow_new_trades

\* every close of the list is the same
ConstantCloses(cs) ==
  \A i \in 1..Len(cs) : cs[i].log_close = cs[1].log_close

\* the quotient is exactly 0.5
IsHalf(q) == 2 * q.num = q.den

\* C24: Scenario B: for a list of at least `window` candles whose closes are
\* all the same, calculate_chaos_index returns exactly 0.5, and classify_regime
\* of that value is NEUTRAL.
C24_ConstantClosesAreNeutral ==
  (/\ out.op = "calculate_chaos_index"
   /\ ConstantCloses(args.candles)
   /\ Len(args.candles) >= args.window)
    => /\ IsHalf(out.value)
       /\ ClassifyRegime((out.value.num * IndexScale) \div out.value.den,
                         NoFloat, NoFloat) = "NEUTRAL"

\* a constant list long enough for the Lyapunov estimate gave 0.5
C24_Witness ==
  /\ out.op = "calculate_chaos_index"
  /\ ConstantCloses(args.candles)
  /\ args.window = MaxChaosBars
  /\ Len(args.candles) = MaxChaosBars
  /\ Len(CalculateReturns(args.candles)) >= EmbeddingDimension * Delay + MaxTime
  /\ IsHalf(out.value)

\* the returns that calculate_chaos_index hands to the Lyapunov estimate
WindowReturns == CalculateReturns(Recent(args.candles, args.window))

\* C25: with too little history the analyzers return their defaults:
\* calculate_chaos_index 0.5, calculate_volatility 0.0 and
\* calculate_whale_activity_index 0.0 for fewer candles than the window (the
\* empty list included), calculate_leverage_risk_index 0.0 for fewer than 20
\* candles, and calculate_chaos_index 0.5 whenever the window holds fewer than
\* 10 returns.
C25_InsufficientHistoryDefaults ==
  /\ (/\ out.op = "calculate_chaos_index"
      /\ (Len(args.candles) < args.window \/ Len(WindowReturns) < 10))
       => IsHalf(out.value)
  /\ (out.op = "calculate_volatility" /\ Len(args.candles) < args.window)
       => (out.value.num = 0)
  /\ (/\ out.op = "calculate_whale_activity_index"
      /\ Len(args.candles) < args.window)
       => (out.value.num = 0)
  /\ (/\ out.op = "calculate_leverage_risk_index"
      /\ Len(args.candles) < LeverageMinBars)
       => (out.value.num = 0)

\* 19 moving candles with open interest and a funding rate gave 0.0
C25_Witness ==
  /\ out.op = "calculate_leverage_risk_index"
  /\ Len(args.candles) = LeverageMinBars - 1
  /\ ~ConstantCloses(args.candles)
  /\ args.mock_oi_data = <<1, 4>>
  /\ args.mock_funding_rate.given
  /\ args.mock_funding_rate.value = 100
  /\ out.value.num = 0

\* the quotient lies in [0, 1]
InUnitRange(q) == q.den > 0 /\ 0 <= q.num /\ q.num <= q.den

\* C26: for positive closes and non-negative volumes, whatever trades were
\* recorded and whatever open interest and funding rate are supplied,
\* chaos_index, whale_activity_index and leverage_risk_index are each in
\* [0, 1].
C26_IndicesInUnitRange ==
  (out.op \in {"calculate_chaos_index", "calculate_whale_activity_index",
               "calculate_leverage_risk_index"})
    => InUnitRange(out.value)

\* the mapped exponent of a full window was above 1 and the index is 1.0
C26_Witness ==
  /\ out.op = "calculate_chaos_index"
  /\ Len(args.candles) >= args.window
  /\ LET mapped == MapExponent(ApproximateLyapunovExponent(WindowReturns))
     IN  mapped.num > mapped.den
  /\ out.value.num = out.value.den

\* the volumes of the window of a whale index call
WindowVolumes == Volumes(Recent(args.candles, args.window))

\* bar i of the window has 10 times the window's mean volume
TenTimesMean(i) ==
  /\ SumOfSeq(WindowVolumes) > 0
  /\ Len(WindowVolumes) * WindowVolumes[i] = 10 * SumOfSeq(WindowVolumes)

\* bar i of the window is above mean + 2 * stdev
Counted(i) ==
  AboveThreshold(WindowVolumes[i], Len(WindowVolumes),
                 SumOfSeq(WindowVolumes), Variance(WindowVolumes).num)

\* Scenario C: a full window, no trade recorded, one bar at 10 times the mean
ScenarioC ==
  /\ out.op = "calculate_whale_activity_index"
  /\ Len(args.candles) >= args.window
  /\ microstructure_engine.trades = <<>>
  /\ \E i \in 1..Len(WindowVolumes) : TenTimesMean(i)

\* C27 as stated: in Scenario C calculate_whale_activity_index returns a value
\* strictly greater than 0, and the bar at 10 times the mean is itself counted
\* as exceeding mean + 2*stdev.
C27_TenfoldBarIsCounted ==
  ScenarioC
    => /\ out.value.num > 0
       /\ \A i \in 1..Len(WindowVolumes) : TenTimesMean(i) => Counted(i)

\* C27, amended: in Scenario C calculate_whale_activity_index returns a value
\* strictly greater than 0, because the largest bar of the window is counted
\* as exceeding mean + 2*stdev; the bar at 10 times the mean is counted when
\* it is the largest.
C27_TenfoldBarRaisesIndex ==
  ScenarioC
    => /\ out.value.num > 0
       /\ \A i \in 1..Len(WindowVolumes) :
            (\A j \in 1..Len(WindowVolumes) :
               WindowVolumes[j] <= WindowVolumes[i])
              => Counted(i)

\* a window of 20 bars, one of volume 19 among bars of volume 1, gave an index
\* above 0
C27_Witness ==
  /\ ScenarioC
  /\ args.window = 20
  /\ Len(args.candles) = 20
  /\ WindowVolumes[1] = 19
  /\ TenTimesMean(1)
  /\ Counted(1)
  /\ out.value.num > 0

\* the signals that were inside the trailing window of the call that returned
RecentOps ==
  SelectAtOrAfter(behavior_engine.operation_timestamps,
                  out.now - out.window_hours * SecondsPerHour)

\* the sum of the intervals between them, in milliseconds, and their number
IntervalSum == (RecentOps[Len(RecentOps)] - RecentOps[1]) * MillisPerSecond
IntervalCount == Len(RecentOps) - 1

\* C28: calculate_impulsiveness_index, for at least two signals inside the
\* trailing window with mean inter-signal interval m milliseconds, returns 1.0
\* if m <= 60000, 0.0 if m >= 3600000 and 1 - (m - 60000)/3540000 in between;
\* it returns 0.0 with fewer than two signals in the window; the result is in
\* [0, 1], and, being this function of m, non-increasing in m.
C28_ImpulsivenessMap ==
  (out.op = "calculate_impulsiveness_index")
    => /\ InUnitRange(out.value)
       /\ (Len(RecentOps) < 2) => (out.value.num = 0)
       /\ (Len(RecentOps) >= 2)
            => /\ (IntervalSum <= 60000 * IntervalCount)
                    => (out.value.num = out.value.den)
               /\ (IntervalSum >= 3600000 * IntervalCount)
                    => (out.value.num = 0)
               /\ (/\ IntervalSum > 60000 * IntervalCount
                   /\ IntervalSum < 3600000 * IntervalCount)
                    => /\ out.value.den = 3540000 * IntervalCount
                       /\ out.value.num
                            = 3600000 * IntervalCount - IntervalSum

\* two signals 1860 seconds apart gave an index strictly between 0 and 1
C28_Witness ==
  /\ out.op = "calculate_impulsiveness_index"
  /\ Len(RecentOps) = 2
  /\ IntervalSum = 1860000
  /\ out.value.num > 0
  /\ out.value.num < out.value.den

\* C29: behavior metrics are a function of the recorded history: a call of
\* calculate_impulsiveness_index (same window_hours) or of get_metrics that
\* follows a call of the same on the same recorded signals, trades and
\* extremes returns the same value, at whatever wall-clock time it is made.
C29_SameHistorySameMetrics ==
  [][((/\ behavior_engine' = behavior_engine)
      /\ (\/ (/\ out.op = "calculate_impulsiveness_index")
             /\ (out'.op = "calculate_impulsiveness_index")
             /\ (out'.window_hours = out.window_hours)
          \/ (/\ out.op = "get_metrics")
             /\ (out'.op = "get_metrics")))
       => (out'.value = out.value)]_vars

\* the trades with a recorded extreme within one hour
EvaluatedTrades ==
  {i \in 1..Len(behavior_engine.trades) :
     \E j \in 1..Len(behavior_engine.local_extremes) :
       Abs(behavior_engine.trades[i].timestamp
             - behavior_engine.local_extremes[j].timestamp) <= 3600}

\* the price is within 2% of the price of the extreme
WithinTwoPercent(price, ext_price) ==
  100 * Abs(price - ext_price) <= 2 * ext_price

\* a BUY within 2% of a high, or a SELL within 2% of a low, the extreme being
\* the nearest one and its kind the is_high it was recorded with
ChasingTrades ==
  {i \in EvaluatedTrades :
     LET trade == behavior_engine.trades[i]
         nearest == ClosestExtreme(behavior_engine, trade)
     IN  /\ WithinTwoPercent(trade.price,
                             behavior_engine.local_extremes[nearest].price)
         /\ (trade.side = "BUY") <=> args.is_high[nearest]}

\* C30: calculate_chase_selloff_index returns chasing_count / evaluated_count:
\* the evaluated trades are all the recorded trades, one or more, that have a
\* recorded extreme within 1 hour; a BUY is chasing only within 2% of a
\* recorded high and a SELL only within 2% of a recorded low, by the kind of
\* the nearest extreme; the index is 0 when no extreme is recorded or no trade
\* is evaluated.
C30_ChaseSelloffRatio ==
  (out.op = "calculate_chase_selloff_index")
    => IF behavior_engine.local_extremes = <<>> \/ EvaluatedTrades = {}
       THEN out.value.num = 0
       ELSE out.value.num * Cardinality(EvaluatedTrades)
              = Cardinality(ChasingTrades) * out.value.den

\* the metrics of an engine that has recorded nothing
ZeroMetrics == GetMetrics(NewBehaviorEngine, clock)

ZeroMetricsAreZero ==
  /\ ZeroMetrics.impulsiveness_index.num = 0
  /\ ZeroMetrics.chase_selloff_index.num = 0
  /\ ZeroMetrics.consecutive_losses = 0
  /\ ZeroMetrics.avg_interval_total = 0
  /\ ZeroMetrics.total_operations = 0

\* C31: after BehaviorEngine.reset() or MicrostructureEngine.reset(), whatever
\* was recorded before, the engine is the engine a constructor returns:
\* get_metrics() right after the reset is all zero with total_operations 0,
\* and at every later point the engine, and so every result computed from it,
\* is that of a new instance given only the records made after the reset.
C31_ResetIsFresh ==
  /\ behavior_engine = args.behavior_engine
  /\ microstructure_engine = args.microstructure_engine
  /\ (out.op = "BehaviorEngine.reset" =>
        (GetMetrics(behavior_engine, clock) = ZeroMetrics /\ ZeroMetricsAreZero))
  /\ (out.op = "MicrostructureEngine.reset" =>
        microstructure_engine = NewMicrostructureEngine)
  /\ (out.op = "get_metrics" =>
        out.value = GetMetrics(args.behavior_engine, clock))

\* a reset of a BehaviorEngine that held signals, trades and an extreme
C31_Witness ==
  /\ out.op = "BehaviorEngine.reset"
  /\ out.recorded >= 4
  /\ behavior_engine = NewBehaviorEngine

\* C32: the nearest-neighbour divergence search accepts a budget of time or
\* iterations and, when the budget is exhausted, stops early and returns the
\* best estimate so far instead of raising: a call given a budget returns
\* without an error after no more distance evaluations than the budget.
C32_BudgetStopsEarly ==
  (out.op = "approximate_lyapunov_exponent" /\ args.budget.given) =>
    (out.error = "" /\ out.distances <= args.budget.value)

\* C32, the part without a budget: the search returns, and its loops are
\* bounded by the number of points: fewer than len(returns) squared
\* distance evaluations.
C32_BoundedWithoutBudget ==
  (out.op = "approximate_lyapunov_exponent" /\ ~args.budget.given) =>
    (out.error = "" /\ out.distances < Len(args.returns) * Len(args.returns))

\* C33: portfolio.cash >= 0 in every reachable state, whatever the signals
\* (fractional or absolute quantities), also after an accepted SELL that asks
\* for more than is held, whose fee is charged on the quantity asked for.
C33_CashNeverNegative == cash >= 0

\* the quantities of the trades of symbol s and the given side in the log
SideQuantities(s, side) ==
  [i \in 1..Len(trades) |->
     IF trades[i].symbol = s /\ trades[i].side = side THEN trades[i].quantity
     ELSE 0]

\* C34: at every point and for each symbol, position.quantity is the sum of
\* the quantities of the BUY trades of the log minus the sum of those of the
\* SELL trades: each SELL Trade records the quantity that was closed.
C34_TradeLogConservation ==
  \A s \in Symbols :
    GetPosition(positions, s).quantity =
      SumOfSeq(SideQuantities(s, "BUY")) - SumOfSeq(SideQuantities(s, "SELL"))

\* run executes, on this bar, the SELL a strategy returns while its own view
\* is a long position
ExitOfLong ==
  /\ last'.op = "bar"
  /\ strategy.current_position = "BUY"
  /\ last'.signal.side = "SELL"
  /\ last'.trade # NoTrade

IsOpening(signal) == signal.has_quantity

\* the signals MACrossoverStrategy.on_bar has returned since the last reset
Returned == SelectSeq(strategy.signals, IsOpening)

\* what on_bar returns is the Signal it recorded last, and it is an opening one
ReturnsLastRecorded ==
  (last'.op = "on_bar" /\ strategy.kind = "ma_crossover")
    => IF last'.signal = NoSignal
       THEN SelectSeq(strategy'.signals, IsOpening) = Returned
       ELSE SelectSeq(strategy'.signals, IsOpening)
              = Append(Returned, last'.signal)

\* the signals returned so far alternate, each with the configured quantity,
\* and current_position is the side of the last one
AlternatingSoFar ==
  (strategy.kind = "ma_crossover")
    => (/\ \A i \in 1..Len(Returned) :
             /\ Returned[i].quantity = PositionSizePctNum
             /\ (i > 1) => (Returned[i].side # Returned[i - 1].side)
        /\ strategy.current_position =
             IF Returned = <<>> THEN "None"
             ELSE Returned[Len(Returned)].side)

\* C36: between resets the signals MACrossoverStrategy.on_bar returns
\* alternate strictly in side, every one of them carries quantity =
\* position_size_pct, and current_position is the side of the last returned
\* signal (None before the first).
C36_ReturnedSignalsAlternate ==
  []AlternatingSoFar /\ [][ReturnsLastRecorded]_vars

\* a third signal returned: a BUY after a SELL after a BUY
C36_Witness ==
  /\ strategy.kind = "ma_crossover"
  /\ last.op = "on_bar"
  /\ last.signal # NoSignal
  /\ Len(Returned) = 3
  /\ Returned[1].side = "BUY"

\* a denominator every position_multiplier of the model divides into
CommonDen == 2 * 10 * (10 * IndexScale) * (10 * IndexScale) * (10 * IndexScale)

\* a multiplier over CommonDen
OverCommonDen(m) == m.num * (CommonDen \div m.den)

\* every index argument of the call lies in [0, 1]
InputsInUnitRange(a) ==
  /\ ValidIndex(a.chaos_index)
  /\ ValidIndex(a.whale_activity_index)
  /\ ValidIndex(a.leverage_risk_index)
  /\ a.behavior_metrics.supplied
       => (/\ ValidIndex(a.behavior_metrics.impulsiveness_index)
           /\ a.behavior_metrics.consecutive_losses >= 0)

\* the calls that differ from a in one risk input, which is higher
RaisedInOne(a) ==
  {[a EXCEPT !.chaos_index = x] : x \in {y \in ChaosIndices : y > a.chaos_index}}
    \cup {[a EXCEPT !.whale_activity_index = x] :
            x \in {y \in WhaleIndices : y > a.whale_activity_index}}
    \cup {[a EXCEPT !.leverage_risk_index = x] :
            x \in {y \in LeverageIndices : y > a.leverage_risk_index}}
    \cup {[a EXCEPT !.behavior_metrics = b] :
            b \in {c \in BehaviorMetricsArguments :
                     /\ a.behavior_metrics.supplied
                     /\ c.supplied
                     /\ \/ /\ c.impulsiveness_index
                                > a.behavior_metrics.impulsiveness_index
                           /\ c.consecutive_losses
                                = a.behavior_metrics.consecutive_losses
                        \/ /\ c.impulsiveness_index
                                = a.behavior_metrics.impulsiveness_index
                           /\ c.consecutive_losses
                                > a.behavior_metrics.consecutive_losses}}

\* the position_multiplier evaluate_regime returns for the call a
MultiplierOf(a) ==
  EvaluateRegime(a.chaos_index, a.whale_activity_index, a.leverage_risk_index,
                 a.behavior_metrics).position_multiplier

\* C37: for inputs in [0, 1] the position_multiplier of evaluate_regime does
\* not rise when any one of chaos_index, leverage_risk_index,
\* whale_activity_index, impulsiveness_index and consecutive_losses is raised,
\* and it never exceeds the base multiplier of the classified regime.
C37_MultiplierIsMonotone ==
  (Evaluated /\ InputsInUnitRange(args))
    => /\ \A b \in RaisedInOne(args) :
            InputsInUnitRange(b)
              => (OverCommonDen(MultiplierOf(b))
                    <= OverCommonDen(out.position_multiplier))
       /\ 10 * OverCommonDen(out.position_multiplier)
            <= BaseOf(args.chaos_index) * CommonDen

\* a TREND call just under the NEUTRAL breakpoint with two losses and every
\* index strictly inside the range: each of the five inputs can be raised
C37_Witness ==
  /\ Evaluated
  /\ InputsInUnitRange(args)
  /\ out.regime = "TREND"
  /\ 10 * (args.chaos_index + 1) >= 3 * IndexScale
  /\ args.whale_activity_index = IndexScale \div 2
  /\ args.leverage_risk_index = 14
  /\ args.behavior_metrics.supplied
  /\ args.behavior_metrics.impulsiveness_index = IndexScale \div 2
  /\ args.behavior_metrics.consecutive_losses = 2
  /\ \E b \in RaisedInOne(args) :
       OverCommonDen(MultiplierOf(b)) < OverCommonDen(out.position_multiplier)

\* the engine has recorded six trades or more
SixTradesRecorded == Len(behavior_engine.trades) >= 6

\* consecutive_losses is max(0, n - 1) for n recorded trades, and with six or
\* more of them evaluate_regime does not allow new trades
LossesAreTradeCount ==
  /\ (out.op = "get_metrics")
       => (out.value.consecutive_losses
             = IF behavior_engine.trades = <<>> THEN 0
               ELSE Len(behavior_engine.trades) - 1)
  /\ (Evaluated /\ SixTradesRecorded) => ~out.allow_new_trades

\* only reset() takes an engine out of the six-trade condition
HaltedUntilReset ==
  (SixTradesRecorded /\ out'.op # "BehaviorEngine.reset")
    => (Len(behavior_engine'.trades) >= 6)

\* C38: detect_consecutive_losses depends only on the number n of recorded
\* trades (max(0, n - 1) whatever their sides); so once a BehaviorEngine has
\* recorded six or more trades, every evaluate_regime call fed its
\* get_metrics() returns allow_new_trades = false whatever the index inputs,
\* and this stays so after further record_trade calls until reset().
C38_SixTradesHaltTrading ==
  []LossesAreTradeCount /\ [][HaltedUntilReset]_vars

\* trading refused after six trades of both sides on a TREND call without
\* leverage risk, whale activity or impulsiveness: only the losses rule acts
C38_Witness ==
  /\ Evaluated
  /\ SixTradesRecorded
  /\ ~out.allow_new_trades
  /\ out.regime = "TREND"
  /\ 2 * out.position_multiplier.num = out.position_multiplier.den
  /\ \E i, j \in 1..Len(behavior_engine.trades) :
       behavior_engine.trades[i].side # behavior_engine.trades[j].side

====
